---- MODULE Spec2Model ----
(***************************************************************************)
(* The optimization notebooks of the blog:                                 *)
(*   _notebooks/2022-05-02-Constraint_Programming.ipynb  (CP-SAT models)   *)
(*   _notebooks/2022-03-05-Integer_Programming.ipynb     (CBC models)      *)
(*                                                                         *)
(* A notebook is a sequence of model sections.  Each section creates a     *)
(* model and a solver, declares variables, adds constraints, possibly      *)
(* sets an objective and solver parameters, solves and prints.  The        *)
(* state below is the namespace of the running notebook plus the model     *)
(* and solver objects of the current section.                              *)
(*                                                                         *)
(* The solver is an external library.  It is modelled as a complete        *)
(* search: it walks the box spanned by the variables' domains in           *)
(* lexicographic order, keeps the best feasible points it met, calls the   *)
(* solution callback on every feasible point when enumerate_all_solutions  *)
(* is set, and finally returns ANY of the best points (the library does    *)
(* not promise which one).  Wall times and iteration counts are not        *)
(* modelled.  The three 10-unit models of the Integer Programming          *)
(* notebook span a box far beyond such a walk.  In the run of the whole    *)
(* notebook (SpecIP) their Solve is replayed from the cell outputs the     *)
(* notebook stores; SpecSearch runs these three sections alone and solves  *)
(* them by branch and bound.  SpecRerun runs the ration section and the    *)
(* 3-unit solve_army again with other parameters, SpecCount the ration     *)
(* enumeration with the capacity 1000 of the text, SpecStatus each of the  *)
(* sections that branch on the status, with a solver that may stop its     *)
(* search early and return FEASIBLE, SpecArguments the minimizing          *)
(* solve_army called with several RESOURCES.  In all these runs the        *)
(* libraries are imported, as in the session that produced the stored      *)
(* outputs, and the run of the Integer Programming notebook starts at the  *)
(* hand-written CBC model: its first code cell solves a GLOP model whose   *)
(* construction is not in the notebook.  SpecNames runs all code cells of  *)
(* a notebook in document order from an empty namespace and follows the    *)
(* name lookups only.                                                      *)
(***************************************************************************)
EXTENDS Integers, Sequences, FiniteSets, TLC

VARIABLES
    nb,              \* the run: "CP", "IP", "RERUN", "SEARCH", "COUNT", "STATUS"
                     \* or "ARGUMENTS"
    cell,            \* the model section being executed
    pc,              \* position inside the section
    capacity,        \* CP notebook global `capacity`
    UNITS,           \* IP notebook global: the unit names
    DATA,            \* IP notebook global: rows of coefficients
    RESOURCES,       \* IP notebook global: capacities
    domains,         \* the model's variables, each [lo, hi]
    constraints,     \* the model's constraints, in the order added
    objective,       \* the model's objective: [dir, coef]
    enumerate_all_solutions,  \* solver.parameters.enumerate_all_solutions
    point,           \* the solver's search cursor
    best,            \* the solver's incumbent: [val, pts]
    callbacks,       \* points the solver passed to on_solution_callback
    callback,        \* the solution callback object handed to Solve
    solution_count,  \* CountSolutions.__solution_count
    status,          \* what Solve returned
    values,          \* the assignment held by the solver after Solve
    out,             \* what the section printed, line by line
    calls,           \* the calls made on the current model and solver
    log,             \* finished sections: their model, result and output
    names,           \* the names bound in the kernel's namespace
    cursor,          \* the statement and the name the kernel is looking up
    errors           \* the NameErrors raised so far

vars == << nb, cell, pc, capacity, UNITS, DATA, RESOURCES, domains,
           constraints, objective, enumerate_all_solutions, point, best,
           callbacks, callback, solution_count, status, values, out, calls,
           log, names, cursor, errors >>

globals == << capacity, UNITS, DATA, RESOURCES >>
namespace == << names, cursor, errors >>
model == << domains, constraints, objective >>
search == << point, best, callbacks, status, values >>

(***************************************************************************)
(* Values                                                                  *)
(***************************************************************************)
Infinity == 1000000000
NoObjective == [dir |-> "none", coef |-> << >>]
NoBest == [val |-> 0, pts |-> {}]
NotSolved == "NOT_SOLVED"

Line(text, nums) == [text |-> text, nums |-> nums]

LinearLeNegated(coef, rhs) ==
    [kind |-> "le", coef |-> coef, rhs |-> 0 - rhs, mod |-> 0]
LinearLe(coef, rhs) == [kind |-> "le", coef |-> coef, rhs |-> rhs, mod |-> 0]
LinearGe(coef, rhs) == [kind |-> "ge", coef |-> coef, rhs |-> rhs, mod |-> 0]
\* AddModuloEquality(target, variable, mod): variable % mod = target
ModuloEquality(target, coef, mod) ==
    [kind |-> "mod", coef |-> coef, rhs |-> target, mod |-> mod]

(***************************************************************************)
(* Linear expressions and constraints over a point (one value per          *)
(* variable).                                                              *)
(***************************************************************************)
RECURSIVE SumTo(_, _, _)
SumTo(coef, p, n) ==
    IF n = 0 THEN 0 ELSE SumTo(coef, p, n - 1) + coef[n] * p[n]

Eval(coef, p) == SumTo(coef, p, Len(coef))

HoldsStrictly(c, p) ==
    CASE c.kind = "le"  -> Eval(c.coef, p) < c.rhs
      [] c.kind = "ge"  -> Eval(c.coef, p) > c.rhs
      [] c.kind = "mod" -> Eval(c.coef, p) % c.mod = c.rhs

Holds(c, p) ==
    CASE c.kind = "le"  -> Eval(c.coef, p) <= c.rhs
      [] c.kind = "ge"  -> Eval(c.coef, p) >= c.rhs
      [] c.kind = "mod" -> Eval(c.coef, p) % c.mod = c.rhs

Feasible(cs, p) == \A i \in DOMAIN cs : Holds(cs[i], p)

ObjectiveValue(obj, p) ==
    IF obj.dir = "none" THEN 0 ELSE Eval(obj.coef, p)

Better(obj, a, b) ==
    CASE obj.dir = "max" -> a > b
      [] obj.dir = "min" -> a < b
      [] OTHER -> FALSE

(***************************************************************************)
(* The sections of the two notebooks, in document order.                   *)
(***************************************************************************)
CPSections == << "scouts", "scoutsAll", "rations", "rationsCount" >>
IPSections == << "cbc", "army3", "army10", "armyMin", "armyCombined" >>

\* The order of the statements of a section.
FlowObjectiveFirst(c) ==
    CASE c = "scouts" ->
            << "new", "vars", "constraints", "solve", "report" >>
      [] c = "scoutsAll" ->
            << "new", "vars", "constraints", "callback", "params", "solve",
               "report" >>
      [] c = "rations" ->
            << "new", "globals", "vars", "objective", "constraints", "solve",
               "report" >>
      [] c = "rationsCount" ->
            << "callback", "new", "globals", "vars", "constraints", "params",
               "solve", "report" >>
      [] c = "cbc" ->
            << "new", "vars", "constraints", "objective", "solve", "report" >>
      [] c \in {"army3", "army10"} ->
            << "globals", "new", "vars", "constraints", "objective", "solve",
               "report" >>
      [] c \in {"armyMin", "armyCombined"} ->
            << "new", "vars", "constraints", "objective", "solve", "report" >>

Flow(c) ==
    CASE c = "scouts" ->
            << "new", "vars", "constraints", "solve", "report" >>
      [] c = "scoutsAll" ->
            << "new", "vars", "constraints", "callback", "params", "solve",
               "report" >>
      [] c = "rations" ->
            << "new", "globals", "vars", "constraints", "objective", "solve",
               "report" >>
      [] c = "rationsCount" ->
            << "callback", "new", "globals", "vars", "constraints", "params",
               "solve", "report" >>
      [] c = "cbc" ->
            << "new", "vars", "constraints", "objective", "solve", "report" >>
      [] c \in {"army3", "army10"} ->
            << "globals", "new", "vars", "constraints", "objective", "solve",
               "report" >>
      [] c \in {"armyMin", "armyCombined"} ->
            << "new", "vars", "constraints", "objective", "solve", "report" >>

IndexOf(seq, x) == CHOOSE i \in DOMAIN seq : seq[i] = x

\* The statement after `p` in section `c` ("next": the section is over).
After(c, p) ==
    LET i == IndexOf(Flow(c), p)
    IN  IF i = Len(Flow(c)) THEN "next" ELSE Flow(c)[i + 1]

(***************************************************************************)
(* Program constants of the Constraint Programming notebook.               *)
(***************************************************************************)
ScoutsUpper == 10000
ScoutsAllUpper == 100000
RationCapacity == 19
\* "with a capacity of 1000, there are 8,080,104 possible solutions"
LargeCapacity == 1000

OPTIMAL == "OPTIMAL"
FEASIBLE == "FEASIBLE"
INFEASIBLE == "INFEASIBLE"
UNBOUNDED == "UNBOUNDED"

(***************************************************************************)
(* Inputs of the Integer Programming notebook.                             *)
(***************************************************************************)
Units3 == << "Swordsmen", "Bowmen", "Horsemen" >>
Data3 == << << 60, 20, 0, 70 >>,
            << 80, 10, 40, 95 >>,
            << 140, 0, 100, 230 >> >>
Resources3 == << 1200, 800, 600 >>

Units10 == << "Swordsmen", "Men-at-arms", "Bowmen", "Crossbowmen",
              "Handcannoneers", "Horsemen", "Knights", "Battering rams",
              "Springalds", "Mangonels" >>
Data10NoMangonels ==
    << << 60, 20, 0, 6, 70 >>,
       << 100, 0, 20, 12, 155 >>,
       << 30, 50, 0, 5, 70 >>,
       << 80, 0, 40, 12, 80 >>,
       << 120, 0, 120, 35, 150 >>,
       << 100, 20, 0, 9, 125 >>,
       << 140, 0, 100, 24, 230 >>,
       << 0, 300, 0, 200, 700 >>,
       << 0, 250, 250, 30, 200 >> >>
Data10 == << << 60, 20, 0, 6, 70 >>,
             << 100, 0, 20, 12, 155 >>,
             << 30, 50, 0, 5, 70 >>,
             << 80, 0, 40, 12, 80 >>,
             << 120, 0, 120, 35, 150 >>,
             << 100, 20, 0, 9, 125 >>,
             << 140, 0, 100, 24, 230 >>,
             << 0, 300, 0, 200, 700 >>,
             << 0, 250, 250, 30, 200 >>,
             << 0, 400, 200, 12 * 3, 240 >> >>
Resources10 == << 183000, 90512, 80150 >>

PowerThresholdWithMargin == 1000001 + 1700
PowerThresholdInclusive == 1000001 - 1
PowerThreshold == 1000001

(***************************************************************************)
(* What each section declares.  The operators read the notebook globals    *)
(* as the statements of the section do.                                    *)
(***************************************************************************)
\* The variables a section creates, in order.
SectionDomains(c) ==
    CASE c = "scouts" -> << [lo |-> 1, hi |-> ScoutsUpper] >>
      [] c = "scoutsAll" -> << [lo |-> 1, hi |-> ScoutsAllUpper] >>
      [] c \in {"rations", "rationsCount"} ->
            [i \in 1..3 |-> [lo |-> 0, hi |-> capacity]]
      [] c = "cbc" -> [i \in 1..3 |-> [lo |-> 0, hi |-> Infinity]]
      [] OTHER -> [u \in 1..Len(UNITS) |-> [lo |-> 0, hi |-> Infinity]]

\* Python list indexing, 0-based with negative indices from the end:
\* whether row[i] raises IndexError, and the element it yields.
InRange(row, i) == -Len(row) <= i /\ i < Len(row)
AtFromEnd(row, i) == IF i < 0 THEN row[Len(row) + i] ELSE row[i + 1]
At(row, i) == IF i < 0 THEN row[Len(row) + i + 1] ELSE row[i + 1]

units == 0..(Len(domains) - 1)

\* DATA[u][i] for every created variable u: does any of them raise?
ColumnOK(i) ==
    \A u \in units : InRange(DATA, u) /\ InRange(At(DATA, u), i)
Column(i) == [k \in 1..Len(domains) |-> At(At(DATA, k - 1), i)]

\* 10 * DATA[u][-2] + DATA[u][-1]
PowerOK == ColumnOK(-2) /\ ColumnOK(-1)
PowerUnweighted == [k \in 1..Len(domains) |-> Column(-2)[k] + Column(-1)[k]]
Power == [k \in 1..Len(domains) |-> 10 * Column(-2)[k] + Column(-1)[k]]

\* DATA[u][0] + DATA[u][1] + DATA[u][2]
CostOK == ColumnOK(0) /\ ColumnOK(1) /\ ColumnOK(2)
CostWithoutGold == [k \in 1..Len(domains) |-> Column(0)[k] + Column(1)[k]]
Cost ==
    [k \in 1..Len(domains) |-> Column(0)[k] + Column(1)[k] + Column(2)[k]]

\* The moduli of the three scouts, the space and the popularity of bread,
\* meat and beer.
ScoutsModuliRepeated == << 13, 19, 19 >>
ScoutsModuli == << 13, 19, 37 >>
RationSpace == << 1, 3, 7 >>
RationPopularitySwapped == << 3, 26, 10 >>
RationPopularity == << 3, 10, 26 >>

\* for r, _ in enumerate(RESOURCES): the number of rounds of the loop, and
\* the right-hand side RESOURCES[r] of round r.
ArmyConstraintCountShort == Len(RESOURCES) - 1
ArmyConstraintCount == Len(RESOURCES)
ArmyLimitFirst(r) == At(RESOURCES, 0)
ArmyLimit(r) == At(RESOURCES, r)

SectionConstraintCountPerResource(c) ==
    CASE c \in {"scouts", "scoutsAll"} -> 3
      [] c \in {"rations", "rationsCount"} -> 1
      [] c = "cbc" -> 3
      [] c \in {"army3", "army10"} -> ArmyConstraintCount
      [] c = "armyMin" -> 1 + ArmyConstraintCount
      [] c = "armyCombined" -> ArmyConstraintCount + ArmyConstraintCount

\* The number of solver.Add / AddModuloEquality calls of a section.
SectionConstraintCount(c) ==
    CASE c \in {"scouts", "scoutsAll"} -> 3
      [] c \in {"rations", "rationsCount"} -> 1
      [] c = "cbc" -> 3
      [] c \in {"army3", "army10"} -> ArmyConstraintCount
      [] c = "armyMin" -> 1
      [] c = "armyCombined" -> ArmyConstraintCount + ArmyConstraintCount

\* Whether the k-th Add of a section evaluates without IndexError.
SectionConstraintOK(c, k) ==
    CASE c \in {"army3", "army10"} -> ColumnOK(k - 1)
      [] c = "armyMin" -> PowerOK
      [] c = "armyCombined" ->
            IF k <= Len(RESOURCES) THEN PowerOK
            ELSE ColumnOK(k - Len(RESOURCES) - 1)
      [] OTHER -> TRUE

\* The constraint the k-th Add of a section adds.
SectionConstraint(c, k) ==
    CASE c \in {"scouts", "scoutsAll"} ->
            ModuloEquality(0, << 1 >>, ScoutsModuli[k])
      [] c \in {"rations", "rationsCount"} ->
            LinearLe(RationSpace, capacity)
      [] c = "cbc" ->
            << LinearLe(<< 60, 80, 140 >>, 1200),
               LinearLe(<< 20, 10, 0 >>, 800),
               LinearLe(<< 0, 40, 100 >>, 600) >>[k]
      [] c \in {"army3", "army10"} ->
            LinearLe(Column(k - 1), ArmyLimit(k - 1))
      [] c = "armyMin" -> LinearGe(Power, PowerThreshold)
      [] c = "armyCombined" ->
            IF k <= Len(RESOURCES) THEN LinearGe(Power, PowerThreshold)
            ELSE LinearLe(Column(k - Len(RESOURCES) - 1),
                          ArmyLimit(k - Len(RESOURCES) - 1))

\* Whether the section's Maximize / Minimize evaluates without IndexError.
SectionObjectiveOK(c) ==
    CASE c = "army3" -> ColumnOK(-1)
      [] c = "army10" -> PowerOK
      [] c \in {"armyMin", "armyCombined"} -> CostOK
      [] OTHER -> TRUE

\* The objective a section sets.
SectionObjective(c) ==
    CASE c = "rations" -> [dir |-> "max", coef |-> RationPopularity]
      [] c = "cbc" -> [dir |-> "max", coef |-> << 70, 95, 230 >>]
      [] c = "army3" -> [dir |-> "max", coef |-> Column(-1)]
      [] c = "army10" -> [dir |-> "max", coef |-> Power]
      [] c \in {"armyMin", "armyCombined"} -> [dir |-> "min", coef |-> Cost]

\* The callback class a section instantiates.
SectionCallback(c) ==
    CASE c = "scoutsAll" -> "PrintSolutions"
      [] c = "rationsCount" -> "CountSolutions"

AcceptedFeasible(c) == {OPTIMAL, FEASIBLE}

AcceptedAlways(c) == {OPTIMAL, FEASIBLE, INFEASIBLE, UNBOUNDED}

\* The statuses on which a section prints the assignment.
Accepted(c) ==
    IF c = "scouts" THEN {OPTIMAL, FEASIBLE} ELSE {OPTIMAL}

(***************************************************************************)
(* The solver: a complete search over the box of the variables' domains.   *)
(***************************************************************************)
SearchCap == 3

Minimum(S) == CHOOSE x \in S : \A y \in S : x <= y
Maximum(S) == CHOOSE x \in S : \A y \in S : x >= y

\* The <=-constraints with non-negative coefficients that limit variable u
\* from above (all variables are >= 0 where this is used).
Limits(u) ==
    { i \in DOMAIN constraints :
        /\ constraints[i].kind = "le"
        /\ constraints[i].coef[u] > 0
        /\ \A j \in DOMAIN constraints[i].coef : constraints[i].coef[j] >= 0 }

\* The largest value of variable u the search visits: its declared upper
\* bound, or for solver.infinity() the bound its constraints imply; a
\* variable nothing limits is walked up to SearchCap.
Hi(u) ==
    IF domains[u].hi < Infinity THEN domains[u].hi
    ELSE IF Limits(u) = {} THEN SearchCap
    ELSE Minimum({ constraints[i].rhs \div constraints[i].coef[u] :
                    i \in Limits(u) })

Lo == [u \in DOMAIN domains |-> domains[u].lo]

BoxEmpty == \E u \in DOMAIN domains : Hi(u) < domains[u].lo

\* The point after p in lexicographic order, << >> after the last one.
NextPoint(p) ==
    LET movable == { i \in DOMAIN p : p[i] < Hi(i) }
    IN  IF movable = {} THEN << >>
        ELSE LET m == Maximum(movable)
             IN  [i \in DOMAIN p |->
                    IF i < m THEN p[i]
                    ELSE IF i = m THEN p[i] + 1 ELSE domains[i].lo]

IncumbentLast(b, obj, p) == [val |-> ObjectiveValue(obj, p), pts |-> {p}]

IncumbentAny(b, obj, p) ==
    [val |-> ObjectiveValue(obj, p), pts |-> b.pts \cup {p}]

\* The incumbent after the search has looked at feasible point p.
Incumbent(b, obj, p) ==
    LET v == ObjectiveValue(obj, p)
    IN  IF b.pts = {} \/ Better(obj, v, b.val) THEN [val |-> v, pts |-> {p}]
        ELSE IF v = b.val THEN [b EXCEPT !.pts = @ \cup {p}]
        ELSE b

\* The sections whose cell reads the values of the variables once Solve has
\* returned; the two enumerations read none there.
ReadsValues(c) == c \notin {"scoutsAll", "rationsCount"}

\* The sections that call solver.Solve(model, solution_printer).
PassesCallback(c) == c \in {"scoutsAll", "rationsCount"}

\* CountSolutions.on_solution_callback: self.__solution_count += 1
CountSolutionReset(n) == 1
CountSolution(n) == n + 1

\* Whether the solver hands feasible point p to the solution callback:
\* every solution when enumerating, otherwise only an improving one.
CallsBack(p) ==
    /\ PassesCallback(cell)
    /\ \/ enumerate_all_solutions
       \/ best.pts = {}
       \/ Better(objective, ObjectiveValue(objective, p), best.val)

\* A variable without upper limit along which the objective improves.
Unbounded ==
    \E u \in DOMAIN domains :
        /\ domains[u].hi = Infinity
        /\ Limits(u) = {}
        /\ \/ objective.dir = "max" /\ objective.coef[u] > 0
           \/ objective.dir = "min" /\ objective.coef[u] < 0

\* The statuses Solve may return once the search is over.  A model
\* without objective that is not enumerated is reported OPTIMAL or
\* FEASIBLE, depending on the release of the library.
Statuses ==
    IF best.pts = {} THEN {INFEASIBLE}
    ELSE IF Unbounded THEN {UNBOUNDED}
    ELSE IF objective.dir = "none" /\ ~enumerate_all_solutions
         THEN {OPTIMAL, FEASIBLE}
    ELSE {OPTIMAL}

\* What the variables yield when Solve found no solution: pywraplp's
\* solution_value() is 0 then; CP-SAT holds no assignment.
NoValues ==
    IF \E i \in DOMAIN IPSections : IPSections[i] = cell
    THEN [u \in DOMAIN domains |-> 0]
    ELSE << >>

\* The sections whose box is out of reach of the search; their solve is
\* replayed from the output stored in the notebook.
Replayed(c) == c \in {"army10", "armyMin", "armyCombined"}

RecordedValues(c) ==
    CASE c = "army10" -> << 2, 1283, 3, 0, 454, 0, 0, 301, 0, 0 >>
      [] c = "armyMin" -> << 0, 0, 0, 0, 0, 0, 0, 371, 0, 0 >>
      [] c = "armyCombined" -> << 1, 681, 0, 0, 0, 0, 0, 301, 0, 0 >>

(***************************************************************************)
(* The solver on the 10-unit models: branch and bound.  The stored         *)
(* assignment gives the cutoff: the search looks for every assignment      *)
(* whose objective value is at least as good.  With multipliers Y >= 0,    *)
(* one per constraint, and a scale S > 0, every assignment x satisfies     *)
(*     maximize:  S * objective(x) = bound - red . x - Y . slack(x)        *)
(*     minimize:  S * objective(x) = bound + red . x + Y . slack(x)        *)
(* where slack(x) >= 0 for a feasible x, and red >= 0 is checked.  So a    *)
(* feasible x at least as good as the cutoff has                           *)
(*     red . x + Y . slack(x) <= Gap = |bound - S * cutoff|,               *)
(* which bounds every variable with red > 0 and the slack of every         *)
(* constraint with Y > 0.  The search walks, depth first along             *)
(* BranchOrder, all assignments inside these bounds.                       *)
(***************************************************************************)
BranchOrder(c) ==
    CASE c = "army10" -> << 10, 9, 3, 6, 1, 4, 7, 8, 2, 5 >>
      [] c = "armyMin" -> << 10, 9, 7, 5, 4, 6, 2, 3, 1, 8 >>
      [] c = "armyCombined" -> << 10, 9, 3, 6, 1, 7, 4, 5, 8, 2 >>

\* The multipliers of the constraints, in the order the model holds them,
\* and the scale that makes them integers.
Dual(c) ==
    CASE c = "army10" -> << 115, 432, 85 >>
      [] c = "armyMin" -> << 1 >>
      [] c = "armyCombined" -> << 120, 0, 0, 0, 805, 0 >>

Scale(c) ==
    CASE c = "army10" -> 48
      [] c = "armyMin" -> 9
      [] c = "armyCombined" -> 275

Sign(c) == IF c.kind = "le" THEN 1 ELSE 0 - 1

Slack(c, x) == Sign(c) * (c.rhs - Eval(c.coef, x))

Weighted(u) ==
    Eval([i \in DOMAIN constraints |->
            Sign(constraints[i]) * constraints[i].coef[u]], Dual(cell))

ReducedCost ==
    [u \in DOMAIN domains |->
        IF objective.dir = "max"
        THEN Weighted(u) - Scale(cell) * objective.coef[u]
        ELSE Scale(cell) * objective.coef[u] + Weighted(u)]

DualBound ==
    LET b == Eval([i \in DOMAIN constraints |->
                     Sign(constraints[i]) * constraints[i].rhs], Dual(cell))
    IN  IF objective.dir = "max" THEN b ELSE 0 - b

Cutoff == ObjectiveValue(objective, RecordedValues(cell))

Gap ==
    IF objective.dir = "max"
    THEN DualBound - Scale(cell) * Cutoff
    ELSE Scale(cell) * Cutoff - DualBound

\* Rounding up; a \div b rounds down.
CeilDiv(a, b) == 0 - ((0 - a) \div b)

\* A node of the search is the sequence of the values given to the first
\* variables of BranchOrder; the other variables are 0 in its assignment.
Assignment(p) ==
    [u \in DOMAIN domains |->
        LET at == { k \in DOMAIN p : BranchOrder(cell)[k] = u }
        IN  IF at = {} THEN 0 ELSE p[CHOOSE k \in at : TRUE]]

\* The values the search gives to the variable after node p: from lo to hi.
Window(p) ==
    LET order == BranchOrder(cell)
        v == order[Len(p) + 1]
        rest == { order[k] : k \in (Len(p) + 2)..Len(order) }
        x == Assignment(p)
        red == ReducedCost
        Y == Dual(cell)
        B == Gap - Eval(red, x)
        left(i) == constraints[i].rhs - Eval(constraints[i].coef, x)
        rows == { i \in DOMAIN constraints : constraints[i].coef[v] > 0 }
        \* rows whose slack is final once v has its value
        alone == { i \in rows : /\ Y[i] > 0
                                 /\ \A w \in rest : constraints[i].coef[w] = 0 }
        \* pairs of <= rows that hold only v and the variable after it
        w == order[Len(p) + 2]
        det(i, j) == constraints[j].coef[w] * constraints[i].coef[v]
                       - constraints[i].coef[w] * constraints[j].coef[v]
        pairs ==
            IF red[v] > 0 \/ Len(p) + 2 > Len(order) THEN {}
            ELSE { ij \in (DOMAIN constraints) \X (DOMAIN constraints) :
                     /\ constraints[ij[1]].kind = "le"
                     /\ constraints[ij[2]].kind = "le"
                     /\ Y[ij[1]] > 0 /\ Y[ij[2]] > 0
                     /\ constraints[ij[1]].coef[w] > 0
                     /\ constraints[ij[2]].coef[w] > 0
                     /\ det(ij[1], ij[2]) > 0
                     /\ \A z \in rest \ {w} :
                           /\ constraints[ij[1]].coef[z] = 0
                           /\ constraints[ij[2]].coef[z] = 0 }
        diff(i, j) == constraints[j].coef[w] * left(i)
                        - constraints[i].coef[w] * left(j)
        his ==
            {Infinity}
            \cup (IF red[v] > 0 THEN {B \div red[v]} ELSE {})
            \cup { left(i) \div constraints[i].coef[v] :
                     i \in { k \in rows : constraints[k].kind = "le" } }
            \cup { (left(i) + B \div Y[i]) \div constraints[i].coef[v] :
                     i \in { k \in alone : constraints[k].kind = "ge" } }
            \cup { (diff(ij[1], ij[2])
                      + constraints[ij[1]].coef[w] * (B \div Y[ij[2]]))
                        \div det(ij[1], ij[2]) : ij \in pairs }
        los ==
            {domains[v].lo}
            \cup { CeilDiv(left(i) - B \div Y[i], constraints[i].coef[v]) :
                     i \in { k \in alone : constraints[k].kind = "le" } }
            \cup { CeilDiv(left(i), constraints[i].coef[v]) :
                     i \in { k \in alone : constraints[k].kind = "ge" } }
            \cup { CeilDiv(diff(ij[1], ij[2])
                             - constraints[ij[2]].coef[w] * (B \div Y[ij[1]]),
                           det(ij[1], ij[2])) : ij \in pairs }
    IN  [lo |-> Maximum(los), hi |-> Minimum(his)]

Done == << 0 - 1 >>

\* The node after p once everything below p has been looked at: the next
\* value of the last variable of p, or of the last one before it that has
\* a value left.
RECURSIVE Up(_)
Up(p) ==
    IF p = << >> THEN Done
    ELSE LET q == SubSeq(p, 1, Len(p) - 1)
         IN  IF p[Len(p)] < Window(q).hi THEN Append(q, p[Len(p)] + 1)
             ELSE Up(q)

\* The node the search looks at after node p.
NextNode(p) ==
    IF Len(p) = Len(domains) THEN Up(p)
    ELSE LET w == Window(p)
         IN  IF w.lo <= w.hi THEN Append(p, w.lo) ELSE Up(p)

(***************************************************************************)
(* The solver enumerating a model too large for the walk through its box:  *)
(* search with bounds propagation.  The <=-constraints bound every         *)
(* variable given the values of the variables after it, so the search      *)
(* never leaves the feasible points.  A node gives a value to every        *)
(* variable but the first; all values the first variable can still take    *)
(* are solutions, and the callback runs once for each of them.             *)
(***************************************************************************)
\* The largest value variable u can take at node p, the variables before u
\* at their lower bounds.
ReachBelow(u, p) ==
    LET q == [i \in DOMAIN p |-> IF i < u THEN domains[i].lo
                                 ELSE IF i = u THEN 0 ELSE p[i]]
    IN  Minimum({domains[u].hi}
                \cup { (constraints[i].rhs - Eval(constraints[i].coef, q))
                          \div constraints[i].coef[u] - 1 : i \in Limits(u) })

Reach(u, p) ==
    LET q == [i \in DOMAIN p |-> IF i < u THEN domains[i].lo
                                 ELSE IF i = u THEN 0 ELSE p[i]]
    IN  Minimum({domains[u].hi}
                \cup { (constraints[i].rhs - Eval(constraints[i].coef, q))
                          \div constraints[i].coef[u] : i \in Limits(u) })

\* The node after p, << >> after the last one.
NextBranch(p) ==
    LET movable == { i \in DOMAIN p : i > 1 /\ p[i] < Reach(i, p) }
    IN  IF movable = {} THEN << >>
        ELSE LET m == Minimum(movable)
             IN  [i \in DOMAIN p |->
                    IF i < m THEN domains[i].lo
                    ELSE IF i = m THEN p[i] + 1 ELSE p[i]]

\* on_solution_callback run k times
CountSolutionTimes[n \in Nat, k \in Nat] ==
    IF k = 0 THEN n
    ELSE IF k = 1 THEN CountSolution(n)
    ELSE CountSolutionTimes[CountSolutionTimes[n, k \div 2], k - k \div 2]

(***************************************************************************)
(* What a section prints once Solve has returned.                          *)
(***************************************************************************)
NoSolution == "The solver could not find a solution."
NoOptimal == "The solver could not find an optimal solution."

UnitLines == [u \in 1..Len(domains) |-> Line(UNITS[u], << values[u] >>)]

Printed(c) ==
    CASE c = "scouts" ->
            IF status \in Accepted(c)
            THEN << Line("Solution", << >>),
                    Line("Army", << values[1] >>),
                    Line("Constraint 1", << values[1], 13, values[1] % 13 >>),
                    Line("Constraint 2", << values[1], 19, values[1] % 19 >>),
                    Line("Constraint 3", << values[1], 37, values[1] % 37 >>) >>
            ELSE << Line(NoSolution, << >>) >>
      [] c = "scoutsAll" -> << >>
      [] c = "rations" ->
            IF status \in Accepted(c)
            THEN << Line("Solution", << >>),
                    Line("Optimal value",
                         << 3 * values[1] + 10 * values[2] + 26 * values[3] >>),
                    Line("Bread", << values[1] >>),
                    Line("Meat", << values[2] >>),
                    Line("Beer", << values[3] >>) >>
            ELSE << Line(NoOptimal, << >>) >>
      [] c = "rationsCount" -> << Line("", << solution_count >>) >>
      [] c = "cbc" ->
            IF status \in Accepted(c)
            THEN << Line("Solution", << >>),
                    Line("Optimal value",
                         << ObjectiveValue(objective, values) >>),
                    Line("Swordsmen", << values[1] >>),
                    Line("Bowmen", << values[2] >>),
                    Line("Horsemen", << values[3] >>) >>
            ELSE << Line(NoOptimal, << >>) >>
      [] c \in {"army3", "army10"} ->
            IF status \in Accepted(c)
            THEN << Line("Solution", << >>),
                    Line("Optimal value",
                         << ObjectiveValue(objective, values) >>) >>
                 \o UnitLines
            ELSE << Line(NoOptimal, << >>) >>
      [] c \in {"armyMin", "armyCombined"} ->
            IF status \in Accepted(c)
            THEN << Line("Solution", << >>),
                    Line("Optimal value",
                         << ObjectiveValue(objective, values) >>),
                    Line("Power", << Eval(Power, values) >>) >>
                 \o UnitLines
                 \o << Line("Food", << Eval(Column(0), values) >>),
                       Line("Wood", << Eval(Column(1), values) >>),
                       Line("Gold", << Eval(Column(2), values) >>) >>
            ELSE << Line(NoOptimal, << >>) >>

(***************************************************************************)
(* Inputs solve_army is called with in the first generic section: the      *)
(* notebook's own, and others of the kind the text invites ("what if our   *)
(* resources change?"), well-formed and malformed.                         *)
(***************************************************************************)
Input(U, D, R) == [UNITS |-> U, DATA |-> D, RESOURCES |-> R]

ArmyInputs ==
    { Input(Units3, Data3, Resources3),
      \* fewer resources
      Input(Units3, Data3, << 600, 400, 300 >>),
      \* a resource in deficit: no army is feasible
      Input(Units3, Data3, << 1200, 0 - 1, 600 >>),
      \* bowmen cost nothing: the power is unbounded
      Input(Units3,
            << << 60, 20, 0, 70 >>, << 0, 0, 0, 95 >>, << 140, 0, 100, 230 >> >>,
            Resources3),
      \* one row more than units
      Input(Units3, Data3 \o << << 100, 20, 0, 125 >> >>, Resources3),
      \* one row less than units
      Input(Units3, SubSeq(Data3, 1, 2), Resources3),
      \* one capacity less than resource columns
      Input(Units3, Data3, << 1200, 800 >>),
      \* one capacity more than resource columns
      Input(Units3, Data3, << 1200, 800, 600, 500 >>),
      \* two capacities more than resource columns
      Input(Units3, Data3, << 1200, 800, 600, 500, 400 >>),
      \* nothing but unit names
      Input(Units3, << << >>, << >>, << >> >>, << >>),
      \* rows without the value column
      Input(Units3,
            << << 60, 20, 0 >>, << 80, 10, 40 >>, << 140, 0, 100 >> >>,
            Resources3) }

SectionInputs(c) ==
    CASE c = "army3" -> ArmyInputs
      [] c = "army10" -> { Input(Units10, Data10, Resources10) }

(***************************************************************************)
(* Re-runs.  The text re-runs its models with other parameters ("with a    *)
(* capacity of 1000, there are ...", "what if our resources change?").     *)
(* The re-run notebook solves the ration model and the 3-unit army model   *)
(* again and again: first twice with the notebook's own parameters, then   *)
(* with every capacity from 0 to MaxCapacity and with growing resources.   *)
(***************************************************************************)
MaxCapacity == 19

RerunCapacities ==
    << RationCapacity, RationCapacity >> \o [k \in 1..(MaxCapacity + 1) |-> k - 1]

RerunResources ==
    << Resources3, Resources3, << 300, 200, 150 >>, << 600, 200, 150 >>,
       << 600, 400, 300 >>, << 1200, 400, 600 >> >>

\* The three 10-unit sections, solved by search rather than replayed.
SearchSections == << "army10", "armyMin", "armyCombined" >>

\* The ration enumeration run with the capacity of the notebook and with
\* the capacity its text names.
CountCapacities == << RationCapacity, LargeCapacity >>

\* The RESOURCES the minimizing solve_army is called with: those of the
\* notebook, none at all, no resources, and enough wood for its answer.
ResourceVectors ==
    { Resources10, << >>, << 0, 0, 0 >>, << 183000, 111300, 80150 >> }

\* The sections that branch on the status of Solve, each run alone with a
\* solver that may give up its search.
StatusSections == {"scouts", "rations", "army3"}
CountSections == [k \in 1..Len(CountCapacities) |-> "rationsCount"]

RerunSections ==
    [k \in 1..Len(RerunCapacities) |-> "rations"]
    \o [k \in 1..Len(RerunResources) |-> "army3"]

Sections ==
    CASE nb = "CP" -> CPSections
      [] nb = "IP" -> IPSections
      [] nb = "RERUN" -> RerunSections
      [] nb = "SEARCH" -> SearchSections
      [] nb = "COUNT" -> CountSections
      [] nb \in {"STATUS", "ARGUMENTS"} -> << cell >>

(***************************************************************************)
(* The statements of a section, one action each.                           *)
(***************************************************************************)
Goto(p) == pc' = After(cell, p)

NewModelReused ==
    /\ pc = "new"
    /\ Goto("new")
    /\ UNCHANGED << namespace, nb, cell, globals, model, enumerate_all_solutions, search,
                    callback, solution_count, out, calls, log >>

\* model = cp_model.CpModel(); solver = cp_model.CpSolver()
\* solver = pywraplp.Solver(..., CBC_MIXED_INTEGER_PROGRAMMING)
NewModel ==
    /\ pc = "new"
    /\ domains' = << >>
    /\ constraints' = << >>
    /\ objective' = NoObjective
    /\ enumerate_all_solutions' = FALSE
    /\ point' = << >>
    /\ best' = NoBest
    /\ callbacks' = << >>
    /\ status' = NotSolved
    /\ values' = << >>
    /\ calls' = << >>
    /\ Goto("new")
    /\ UNCHANGED << namespace, nb, cell, globals, callback, solution_count, out, log >>

\* capacity = 19
AssignCapacity ==
    /\ pc = "globals"
    /\ nb \in {"CP", "STATUS"}
    /\ cell \in {"rations", "rationsCount"}
    /\ capacity' = RationCapacity
    /\ Goto("globals")
    /\ UNCHANGED << namespace, nb, cell, UNITS, DATA, RESOURCES, model,
                    enumerate_all_solutions, search, callback,
                    solution_count, out, calls, log >>

\* capacity = ...: the ration enumeration run again
AssignCapacityCount ==
    /\ pc = "globals"
    /\ nb = "COUNT"
    /\ capacity' = CountCapacities[Len(log) + 1]
    /\ Goto("globals")
    /\ UNCHANGED << namespace, nb, cell, UNITS, DATA, RESOURCES, model,
                    enumerate_all_solutions, search, callback,
                    solution_count, out, calls, log >>

\* capacity = ...: the ration section run again
AssignCapacityRerun ==
    /\ pc = "globals"
    /\ nb = "RERUN"
    /\ cell = "rations"
    /\ capacity' = RerunCapacities[Len(log) + 1]
    /\ Goto("globals")
    /\ UNCHANGED << namespace, nb, cell, UNITS, DATA, RESOURCES, model,
                    enumerate_all_solutions, search, callback,
                    solution_count, out, calls, log >>

\* RESOURCES = [...]: solve_army called again
AssignInputsRerun ==
    /\ pc = "globals"
    /\ nb = "RERUN"
    /\ cell = "army3"
    /\ UNITS' = Units3
    /\ DATA' = Data3
    /\ RESOURCES' = RerunResources[Len(log) + 1 - Len(RerunCapacities)]
    /\ Goto("globals")
    /\ UNCHANGED << namespace, nb, cell, capacity, model, enumerate_all_solutions,
                    search, callback, solution_count, out, calls, log >>

\* UNITS = [...]; DATA = [...]; RESOURCES = [...]
AssignInputs ==
    /\ pc = "globals"
    /\ nb \in {"IP", "SEARCH", "STATUS"}
    /\ cell \in {"army3", "army10"}
    /\ \E in \in SectionInputs(cell) :
        /\ UNITS' = in.UNITS
        /\ DATA' = in.DATA
        /\ RESOURCES' = in.RESOURCES
    /\ Goto("globals")
    /\ UNCHANGED << namespace, nb, cell, capacity, model, enumerate_all_solutions,
                    search, callback, solution_count, out, calls, log >>

\* army = model.NewIntVar(1, 10000, 'army'), ...
\* units = [solver.IntVar(0, solver.infinity(), unit) for unit in UNITS]
NewIntVar ==
    /\ pc = "vars"
    /\ domains' = domains \o SectionDomains(cell)
    /\ calls' = calls \o [k \in 1..Len(SectionDomains(cell)) |-> "var"]
    /\ Goto("vars")
    /\ UNCHANGED << namespace, nb, cell, globals, constraints, objective,
                    enumerate_all_solutions, search, callback,
                    solution_count, out, log >>

\* model.AddModuloEquality(...), model.Add(...), solver.Add(...): the next
\* one of the section
AddConstraint ==
    /\ pc = "constraints"
    /\ Len(constraints) < SectionConstraintCount(cell)
    /\ SectionConstraintOK(cell, Len(constraints) + 1)
    /\ constraints' =
          Append(constraints, SectionConstraint(cell, Len(constraints) + 1))
    /\ calls' = Append(calls, "constraint")
    /\ UNCHANGED << namespace, nb, cell, pc, globals, domains, objective,
                    enumerate_all_solutions, search, callback,
                    solution_count, out, log >>

\* the loop over the constraints is over
ConstraintsAdded ==
    /\ pc = "constraints"
    /\ Len(constraints) = SectionConstraintCount(cell)
    /\ Goto("constraints")
    /\ UNCHANGED << namespace, nb, cell, globals, model, enumerate_all_solutions,
                    search, callback, solution_count, out, calls, log >>

SetObjectiveSkipped ==
    /\ pc = "objective"
    /\ Goto("objective")
    /\ UNCHANGED << namespace, nb, cell, globals, model, enumerate_all_solutions, search,
                    callback, solution_count, out, calls, log >>

\* model.Maximize(...), solver.Maximize(...), solver.Minimize(...)
SetObjective ==
    /\ pc = "objective"
    /\ SectionObjectiveOK(cell)
    /\ objective' = SectionObjective(cell)
    /\ calls' = Append(calls, "objective")
    /\ Goto("objective")
    /\ UNCHANGED << namespace, nb, cell, globals, domains, constraints,
                    enumerate_all_solutions, search, callback,
                    solution_count, out, log >>

\* DATA[u][r] with u or r out of range: the call ends with an IndexError
\* and the notebook stops
IndexError ==
    /\ \/ /\ pc = "constraints"
          /\ Len(constraints) < SectionConstraintCount(cell)
          /\ ~SectionConstraintOK(cell, Len(constraints) + 1)
       \/ /\ pc = "objective"
          /\ ~SectionObjectiveOK(cell)
    /\ pc' = "raised"
    /\ out' = Append(out, Line("IndexError: list index out of range", << >>))
    /\ UNCHANGED << namespace, nb, cell, globals, model, enumerate_all_solutions,
                    search, callback, solution_count, calls, log >>

\* solution_printer = PrintSolutions(army); solution_printer = CountSolutions()
NewCallback ==
    /\ pc = "callback"
    /\ callback' = SectionCallback(cell)
    /\ solution_count' = 0
    /\ Goto("callback")
    /\ UNCHANGED << namespace, nb, cell, globals, model, enumerate_all_solutions,
                    search, out, calls, log >>

SetEnumerateForgotten ==
    /\ pc = "params"
    /\ Goto("params")
    /\ UNCHANGED << namespace, nb, cell, globals, model, enumerate_all_solutions, search,
                    callback, solution_count, out, calls, log >>

\* solver.parameters.enumerate_all_solutions = True
SetEnumerate ==
    /\ pc = "params"
    /\ enumerate_all_solutions' = TRUE
    /\ calls' = Append(calls, "params")
    /\ Goto("params")
    /\ UNCHANGED << namespace, nb, cell, globals, model, search, callback,
                    solution_count, out, log >>

\* status = solver.Solve(...): the search starts
Solve ==
    /\ pc = "solve"
    /\ ~Replayed(cell)
    /\ point' = IF BoxEmpty THEN << >> ELSE Lo
    /\ best' = NoBest
    /\ callbacks' = << >>
    /\ calls' = Append(calls, "solve")
    /\ pc' = "search"
    /\ UNCHANGED << namespace, nb, cell, globals, model, enumerate_all_solutions,
                    status, values, callback, solution_count, out, log >>

\* the search looks at one point; on_solution_callback runs inside it
Search ==
    /\ pc = "search"
    /\ point # << >>
    /\ LET ok == Feasible(constraints, point)
           called == ok /\ CallsBack(point)
       IN  /\ best' = IF ok THEN Incumbent(best, objective, point) ELSE best
           /\ callbacks' = IF called THEN Append(callbacks, point)
                           ELSE callbacks
           \* PrintSolutions.on_solution_callback
           /\ out' = IF called /\ callback = "PrintSolutions"
                     THEN Append(out, Line("", << point[1] >>))
                     ELSE out
           \* CountSolutions.on_solution_callback
           /\ solution_count' = IF called /\ callback = "CountSolutions"
                                THEN CountSolution(solution_count)
                                ELSE solution_count
           \* print(self.Value(self.__variable)): the callback reads the
           \* value while Solve is running
           /\ calls' = IF called /\ callback = "PrintSolutions"
                       THEN Append(calls, "value")
                       ELSE calls
    /\ point' = NextPoint(point)
    /\ UNCHANGED << namespace, nb, cell, pc, globals, model, enumerate_all_solutions,
                    status, values, callback, log >>

\* the search is over: Solve returns a status and holds an assignment
SolveReturn ==
    /\ pc = "search"
    /\ point = << >>
    /\ \E st \in Statuses :
        /\ status' = st
        /\ IF st \in {OPTIMAL, FEASIBLE}
           THEN \E p \in best.pts : values' = p
           ELSE values' = NoValues
    /\ Goto("solve")
    /\ UNCHANGED << namespace, nb, cell, globals, model, enumerate_all_solutions,
                    point, best, callbacks, callback, solution_count, out,
                    calls, log >>

\* status = solver.Solve(): the solver gives up before its search is over
\* (a limit, an interrupt) and returns the best assignment it holds, not
\* proven optimal
SolveStopped ==
    /\ pc = "search"
    /\ nb = "STATUS"
    /\ point # << >>
    /\ best.pts # {}
    /\ status' = FEASIBLE
    /\ \E p \in best.pts : values' = p
    /\ Goto("solve")
    /\ UNCHANGED << namespace, nb, cell, globals, model,
                    enumerate_all_solutions, point, best, callbacks,
                    callback, solution_count, out, calls, log >>

\* status = solver.Solve(model, solution_printer): the search with
\* propagation starts
SolvePropagated ==
    /\ pc = "solve"
    /\ nb = "COUNT"
    /\ point' = IF BoxEmpty \/ ~Feasible(constraints, Lo) THEN << >> ELSE Lo
    /\ best' = NoBest
    /\ callbacks' = << >>
    /\ calls' = Append(calls, "solve")
    /\ pc' = "propagate"
    /\ UNCHANGED << namespace, nb, cell, globals, model, enumerate_all_solutions,
                    status, values, callback, solution_count, out, log >>

\* the search looks at one node: every value left to the first variable
\* is a solution and is handed to on_solution_callback
Propagate ==
    /\ pc = "propagate"
    /\ point # << >>
    /\ LET k == IF enumerate_all_solutions
                THEN Reach(1, point) - domains[1].lo + 1
                ELSE 1
           called == PassesCallback(cell)
                       /\ (enumerate_all_solutions \/ best.pts = {})
       IN  /\ best' = IF best.pts = {}
                      THEN Incumbent(best, objective, point)
                      ELSE best
           /\ solution_count' = IF called /\ callback = "CountSolutions"
                                THEN CountSolutionTimes[solution_count, k]
                                ELSE solution_count
    /\ point' = IF enumerate_all_solutions THEN NextBranch(point) ELSE << >>
    /\ UNCHANGED << namespace, nb, cell, pc, globals, model, enumerate_all_solutions,
                    callbacks, status, values, callback, out, calls, log >>

\* the search is over
Propagated ==
    /\ pc = "propagate"
    /\ point = << >>
    /\ pc' = "search"
    /\ UNCHANGED << namespace, nb, cell, globals, model, enumerate_all_solutions,
                    search, callback, solution_count, out, calls, log >>

\* status = solver.Solve() of a 10-unit model: the search starts
SolveBounded ==
    /\ pc = "solve"
    /\ nb \in {"SEARCH", "ARGUMENTS"}
    /\ Replayed(cell)
    /\ Feasible(constraints, RecordedValues(cell))
    /\ point' = << >>
    /\ best' = NoBest
    /\ callbacks' = << >>
    /\ calls' = Append(calls, "solve")
    /\ pc' = "branch"
    /\ UNCHANGED << namespace, nb, cell, globals, model, enumerate_all_solutions,
                    status, values, callback, solution_count, out, log >>

\* the search looks at one node; a node that gives every variable a value
\* is a candidate for the incumbent
Branch ==
    /\ pc = "branch"
    /\ LET x == Assignment(point)
           next == NextNode(point)
       IN  /\ best' = IF Len(point) = Len(domains) /\ Feasible(constraints, x)
                      THEN Incumbent(best, objective, x)
                      ELSE best
           /\ IF next = Done
              THEN point' = << >> /\ pc' = "search"
              ELSE point' = next /\ pc' = pc
    /\ UNCHANGED << namespace, nb, cell, globals, model, enumerate_all_solutions,
                    callbacks, status, values, callback, solution_count, out,
                    calls, log >>

\* status = solver.Solve() of a section whose result the notebook stores
SolveRecorded ==
    /\ pc = "solve"
    /\ nb = "IP"
    /\ Replayed(cell)
    /\ status' = OPTIMAL
    /\ values' = RecordedValues(cell)
    /\ calls' = Append(calls, "solve")
    /\ Goto("solve")
    /\ UNCHANGED << namespace, nb, cell, globals, model, enumerate_all_solutions,
                    point, best, callbacks, callback, solution_count, out,
                    log >>

\* if status == ...: print(...) else: print(...)
Report ==
    /\ pc = "report"
    /\ out' = out \o Printed(cell)
    /\ calls' = IF ReadsValues(cell) /\ status \in Accepted(cell)
                THEN Append(calls, "value")
                ELSE calls
    /\ Goto("report")
    /\ UNCHANGED << namespace, nb, cell, globals, model, enumerate_all_solutions,
                    search, callback, solution_count, log >>

\* What the notebook keeps of a finished section.
Finished ==
    [cell |-> cell, UNITS |-> UNITS, DATA |-> DATA, RESOURCES |-> RESOURCES,
     domains |-> domains, constraints |-> constraints,
     objective |-> objective,
     enumerate_all_solutions |-> enumerate_all_solutions,
     status |-> status, values |-> values, out |-> out,
     capacity |-> capacity, calls |-> calls]

\* the next section of the notebook begins
NextSection ==
    /\ pc = "next"
    /\ log' = Append(log, Finished)
    /\ out' = << >>
    /\ LET i == Len(log) + 1
       IN  IF i = Len(Sections)
           THEN cell' = cell /\ pc' = "end"
           ELSE cell' = Sections[i + 1] /\ pc' = Flow(Sections[i + 1])[1]
    /\ UNCHANGED << namespace, nb, globals, model, enumerate_all_solutions, search,
                    callback, solution_count, calls >>

(***************************************************************************)
(* The namespace.  Each code cell is the sequence of its top-level         *)
(* statements; a statement looks up global names, in the order of          *)
(* evaluation, and then binds names.  A call of a function or a class      *)
(* looks up the global names its body reads as well.  Names of builtins    *)
(* (print, sum, enumerate) and local names are left out.                   *)
(***************************************************************************)
Statement(reads, binds) == [reads |-> reads, binds |-> binds]

\* status = solver.Solve(): a cell that only solves and reports
SolveOnly(lib) ==
    << Statement(<< "solver" >>, {"status"}),
       Statement(<< "status", lib, "solver", "swordsmen", "bowmen",
                    "horsemen" >>, {}) >>

\* UNITS = ...; DATA = ...; RESOURCES = ...
Inputs ==
    << Statement(<< >>, {"UNITS"}),
       Statement(<< >>, {"DATA"}),
       Statement(<< >>, {"RESOURCES"}) >>

\* def solve_army(UNITS, DATA, RESOURCES): ...
\* solve_army(UNITS, DATA, RESOURCES), whose body reads pywraplp
DefineAndCall ==
    << Statement(<< >>, {"solve_army"}),
       Statement(<< "solve_army", "UNITS", "DATA", "RESOURCES", "pywraplp" >>,
                 {}) >>

IPCells ==
    << SolveOnly("pywraplp"),
       << Statement(<< "pywraplp" >>, {"solver"}),
          Statement(<< "solver" >>, {"swordsmen"}),
          Statement(<< "solver" >>, {"bowmen"}),
          Statement(<< "solver" >>, {"horsemen"}),
          Statement(<< "solver", "swordsmen", "bowmen", "horsemen" >>, {}),
          Statement(<< "solver", "swordsmen", "bowmen" >>, {}),
          Statement(<< "solver", "bowmen", "horsemen" >>, {}),
          Statement(<< "solver", "swordsmen", "bowmen", "horsemen" >>, {}),
          Statement(<< "solver" >>, {"status"}),
          Statement(<< "status", "pywraplp", "solver", "swordsmen", "bowmen",
                       "horsemen" >>, {}) >>,
       Inputs \o DefineAndCall,
       Inputs \o DefineAndCall,
       DefineAndCall,
       DefineAndCall >>

\* model = cp_model.CpModel(); solver = cp_model.CpSolver()
Instantiate ==
    << Statement(<< "cp_model" >>, {"model"}),
       Statement(<< "cp_model" >>, {"solver"}) >>

\* model.AddModuloEquality(0, army, ...), three times
Moduli == [k \in 1..3 |-> Statement(<< "model", "army" >>, {})]

\* capacity = 19; bread, meat, beer = model.NewIntVar(0, capacity, ...)
Rations ==
    << Statement(<< >>, {"capacity"}),
       Statement(<< "model", "capacity" >>, {"bread"}),
       Statement(<< "model", "capacity" >>, {"meat"}),
       Statement(<< "model", "capacity" >>, {"beer"}) >>

\* class ...(cp_model.CpSolverSolutionCallback)
Class(name) == Statement(<< "cp_model" >>, {name})

CPCells ==
    << << Statement(<< >>, {}) >>,
       << Statement(<< >>, {"cp_model"}) >> \o Instantiate,
       << Statement(<< "model" >>, {"army"}) >>,
       Moduli,
       << Statement(<< "solver", "model" >>, {"status"}),
          Statement(<< "status", "cp_model", "solver", "army" >>, {}) >>,
       Instantiate
         \o << Statement(<< "model" >>, {"army"}) >>
         \o Moduli
         \o << Class("PrintSolutions"),
               Statement(<< "PrintSolutions", "army", "cp_model" >>,
                         {"solution_printer"}),
               Statement(<< "solver" >>, {}),
               Statement(<< "solver", "model", "solution_printer" >>,
                         {"status"}) >>,
       Instantiate \o Rations,
       << Statement(<< "model", "bread", "meat", "beer", "capacity" >>, {}) >>,
       << Statement(<< "model", "bread", "meat", "beer" >>, {}) >>,
       << Statement(<< "solver", "model" >>, {"status"}),
          Statement(<< "status", "cp_model", "solver", "bread", "meat",
                       "beer" >>, {}) >>,
       << Class("CountSolutions"),
          Statement(<< "CountSolutions", "cp_model" >>, {"solution_printer"}) >>
         \o Instantiate
         \o Rations
         \o << Statement(<< "model", "bread", "meat", "beer", "capacity" >>,
                         {}),
               Statement(<< "solver" >>, {}),
               Statement(<< "solver", "model", "solution_printer" >>,
                         {"status"}),
               Statement(<< "solution_printer" >>, {}) >> >>

Cells == IF nb = "CP" THEN CPCells ELSE IPCells

\* The kernel is inside a cell, at a statement.
Running == cursor.cell <= Len(Cells) /\ cursor.stmt <= Len(Cells[cursor.cell])

Current == Cells[cursor.cell][cursor.stmt]

\* the kernel looks up a name that is bound
Lookup ==
    /\ Running
    /\ cursor.read <= Len(Current.reads)
    /\ Current.reads[cursor.read] \in names
    /\ cursor' = [cursor EXCEPT !.read = @ + 1]
    /\ UNCHANGED << names, errors, nb, cell, pc, globals, model,
                    enumerate_all_solutions, search, callback,
                    solution_count, out, calls, log >>

\* the kernel looks up a name that is not bound: NameError, the rest of
\* the cell is not executed
NameError ==
    /\ Running
    /\ cursor.read <= Len(Current.reads)
    /\ Current.reads[cursor.read] \notin names
    /\ errors' = Append(errors, [cell |-> cursor.cell, stmt |-> cursor.stmt,
                                 name |-> Current.reads[cursor.read]])
    /\ cursor' = [cursor EXCEPT !.stmt = Len(Cells[cursor.cell]) + 1, !.read = 1]
    /\ UNCHANGED << names, nb, cell, pc, globals, model,
                    enumerate_all_solutions, search, callback,
                    solution_count, out, calls, log >>

\* the statement is evaluated: its targets are bound
Bind ==
    /\ Running
    /\ cursor.read > Len(Current.reads)
    /\ names' = names \cup Current.binds
    /\ cursor' = [cursor EXCEPT !.stmt = @ + 1, !.read = 1]
    /\ UNCHANGED << errors, nb, cell, pc, globals, model,
                    enumerate_all_solutions, search, callback,
                    solution_count, out, calls, log >>

\* the next code cell is executed
NextCell ==
    /\ cursor.cell <= Len(Cells)
    /\ cursor.stmt > Len(Cells[cursor.cell])
    /\ cursor' = [cell |-> cursor.cell + 1, stmt |-> 1, read |-> 1]
    /\ UNCHANGED << names, errors, nb, cell, pc, globals, model,
                    enumerate_all_solutions, search, callback,
                    solution_count, out, calls, log >>

NextNames ==
    \/ Lookup
    \/ NameError
    \/ Bind
    \/ NextCell

(***************************************************************************)
(* The notebooks.                                                          *)
(***************************************************************************)
Start(n, c) ==
    /\ nb = n
    /\ cell = c
    /\ pc = Flow(c)[1]
    /\ capacity = 0
    /\ UNITS = << >>
    /\ DATA = << >>
    /\ RESOURCES = << >>
    /\ domains = << >>
    /\ constraints = << >>
    /\ objective = NoObjective
    /\ enumerate_all_solutions = FALSE
    /\ point = << >>
    /\ best = NoBest
    /\ callbacks = << >>
    /\ callback = "none"
    /\ solution_count = 0
    /\ status = NotSolved
    /\ values = << >>
    /\ out = << >>
    /\ calls = << >>
    /\ log = << >>
    /\ names = {}
    /\ cursor = [cell |-> 1, stmt |-> 1, read |-> 1]
    /\ errors = << >>

InitCP == Start("CP", CPSections[1])
InitIP == Start("IP", IPSections[1])

NextCP ==
    \/ NewModel
    \/ AssignCapacity
    \/ NewIntVar
    \/ AddConstraint
    \/ ConstraintsAdded
    \/ SetObjective
    \/ NewCallback
    \/ SetEnumerate
    \/ Solve
    \/ Search
    \/ SolveReturn
    \/ Report
    \/ NextSection

NextIP ==
    \/ NewModel
    \/ AssignInputs
    \/ NewIntVar
    \/ AddConstraint
    \/ ConstraintsAdded
    \/ SetObjective
    \/ IndexError
    \/ Solve
    \/ Search
    \/ SolveReturn
    \/ SolveRecorded
    \/ Report
    \/ NextSection

NextRerun ==
    \/ NewModel
    \/ AssignCapacityRerun
    \/ AssignInputsRerun
    \/ NewIntVar
    \/ AddConstraint
    \/ ConstraintsAdded
    \/ SetObjective
    \/ Solve
    \/ Search
    \/ SolveReturn
    \/ Report
    \/ NextSection

NextSearch ==
    \/ NewModel
    \/ AssignInputs
    \/ NewIntVar
    \/ AddConstraint
    \/ ConstraintsAdded
    \/ SetObjective
    \/ SolveBounded
    \/ Branch
    \/ SolveReturn
    \/ Report
    \/ NextSection

InitRerun == Start("RERUN", RerunSections[1])
NextCount ==
    \/ NewCallback
    \/ NewModel
    \/ AssignCapacityCount
    \/ NewIntVar
    \/ AddConstraint
    \/ ConstraintsAdded
    \/ SetEnumerate
    \/ SolvePropagated
    \/ Propagate
    \/ Propagated
    \/ SolveReturn
    \/ Report
    \/ NextSection

NextStatus ==
    \/ NewModel
    \/ AssignCapacity
    \/ AssignInputs
    \/ NewIntVar
    \/ AddConstraint
    \/ ConstraintsAdded
    \/ SetObjective
    \/ IndexError
    \/ Solve
    \/ Search
    \/ SolveStopped
    \/ SolveReturn
    \/ Report
    \/ NextSection

InitSearch == Start("SEARCH", SearchSections[1])
InitStatus == \E c \in StatusSections : Start("STATUS", c)

\* solve_army(UNITS, DATA, RESOURCES) of the minimizing section, the
\* arguments in place
InitArguments ==
    /\ nb = "ARGUMENTS"
    /\ cell = "armyMin"
    /\ pc = Flow("armyMin")[1]
    /\ capacity = 0
    /\ UNITS = Units10
    /\ DATA = Data10
    /\ RESOURCES \in ResourceVectors
    /\ domains = << >>
    /\ constraints = << >>
    /\ objective = NoObjective
    /\ enumerate_all_solutions = FALSE
    /\ point = << >>
    /\ best = NoBest
    /\ callbacks = << >>
    /\ callback = "none"
    /\ solution_count = 0
    /\ status = NotSolved
    /\ values = << >>
    /\ out = << >>
    /\ calls = << >>
    /\ log = << >>
    /\ names = {}
    /\ cursor = [cell |-> 1, stmt |-> 1, read |-> 1]
    /\ errors = << >>

NextArguments ==
    \/ NewModel
    \/ NewIntVar
    \/ AddConstraint
    \/ ConstraintsAdded
    \/ SetObjective
    \/ SolveBounded
    \/ Branch
    \/ SolveReturn
    \/ Report
    \/ NextSection
InitCount == Start("COUNT", CountSections[1])

SpecCP == InitCP /\ [][NextCP]_vars
SpecIP == InitIP /\ [][NextIP]_vars
SpecRerun == InitRerun /\ [][NextRerun]_vars
SpecSearch == InitSearch /\ [][NextSearch]_vars
SpecCount == InitCount /\ [][NextCount]_vars
SpecStatus == InitStatus /\ [][NextStatus]_vars
SpecArguments == InitArguments /\ [][NextArguments]_vars

\* Either notebook.
Init == InitCP \/ InitIP
Next == NextCP \/ NextIP
Spec == Init /\ [][Next]_vars

\* Either notebook run cell by cell from an empty namespace.
SpecNames == Init /\ [][NextNames]_vars

(***************************************************************************)
(* Properties of the Constraint Programming notebook (SpecCP).             *)
(***************************************************************************)
\* The points of the box of the current model that satisfy its constraints.
Box1 == { << v >> : v \in domains[1].lo .. domains[1].hi }
Box3 ==
    { << a, b, c >> : a \in domains[1].lo .. domains[1].hi,
                      b \in domains[2].lo .. domains[2].hi,
                      c \in domains[3].lo .. domains[3].hi }
FeasibleIn(box) == { p \in box : Feasible(constraints, p) }

Range(seq) == { seq[i] : i \in DOMAIN seq }

\* The search of the current section is over and Solve has not returned.
Searched(c) == cell = c /\ pc = "search" /\ point = << >>

\* C1: the scouts model is one variable army in [1, 10000] with the three
\* constraints army % 13 = 0, army % 19 = 0, army % 37 = 0; exactly one
\* value of the domain is feasible, 9139, and it is the value the section
\* finds and prints.
C1_ScoutsUnique ==
    /\ (cell = "scouts" /\ pc = "report") =>
          /\ domains = << [lo |-> 1, hi |-> 10000] >>
          /\ Len(constraints) = 3
          /\ FeasibleIn(Box1) = { << 9139 >> }
          /\ status \in {OPTIMAL, FEASIBLE}
          /\ values = << 9139 >>
    /\ (cell = "scouts" /\ pc = "next") =>
          /\ out[2] = Line("Army", << 9139 >>)
          /\ out[5] = Line("Constraint 3", << 9139, 37, 0 >>)

C1_Witness ==
    /\ cell = "scouts"
    /\ pc = "next"
    /\ Len(constraints) = 3
    /\ values = << 9139 >>
    /\ Len(out) = 5

\* C2: in the ration model with capacity 19 the assignment bread = 2,
\* meat = 1, beer = 2 is feasible with objective 68, no feasible assignment
\* has an objective greater than 68, and 68 is the value the solve reports.
C2_RationsOptimum ==
    /\ (cell = "rations" /\ pc = "report") =>
          /\ capacity = 19
          /\ domains = [i \in 1..3 |-> [lo |-> 0, hi |-> 19]]
          /\ Feasible(constraints, << 2, 1, 2 >>)
          /\ ObjectiveValue(objective, << 2, 1, 2 >>) = 68
          /\ \A p \in FeasibleIn(Box3) : ObjectiveValue(objective, p) <= 68
          /\ status = OPTIMAL
          /\ ObjectiveValue(objective, values) = 68
    /\ (cell = "rations" /\ pc = "next") =>
          out[2] = Line("Optimal value", << 68 >>)

C2_Witness ==
    /\ cell = "rations"
    /\ pc = "next"
    /\ status = OPTIMAL
    /\ values = << 2, 1, 2 >>
    /\ out[2] = Line("Optimal value", << 68 >>)

\* C3: enumerating the capacity-19 ration model without objective hands
\* every feasible assignment to the callback exactly once, and the final
\* solution count, which the section prints, is 121.
C3_RationsCount ==
    /\ Searched("rationsCount") =>
          /\ capacity = 19
          /\ objective = NoObjective
          /\ Range(callbacks) = FeasibleIn(Box3)
          /\ Cardinality(Range(callbacks)) = Len(callbacks)
          /\ Len(callbacks) = 121
          /\ solution_count = 121
    /\ (cell = "rationsCount" /\ pc = "next") =>
          out = << Line("", << 121 >>) >>

C3_Witness ==
    /\ cell = "rationsCount"
    /\ pc = "next"
    /\ Len(callbacks) = 121
    /\ solution_count = 121
    /\ out = << Line("", << 121 >>) >>

\* C4: with the upper bound raised to 100000 the enumeration of the scouts
\* model reports exactly 10 solutions, each once, and they are the
\* multiples 9139 * k, k = 1..10.
C4_ScoutsAll ==
    (cell = "scoutsAll" /\ pc = "report") =>
        /\ domains = << [lo |-> 1, hi |-> 100000] >>
        /\ Len(callbacks) = 10
        /\ Range(callbacks) = { << 9139 * k >> : k \in 1..10 }
        /\ Len(out) = 10
        /\ Range(out) = { Line("", << 9139 * k >>) : k \in 1..10 }
        /\ FeasibleIn(Box1) = Range(callbacks)

C4_Witness ==
    /\ cell = "scoutsAll"
    /\ pc = "report"
    /\ enumerate_all_solutions
    /\ Len(callbacks) = 10
    /\ callbacks[10] = << 91390 >>

(***************************************************************************)
(* Properties of the Integer Programming notebook (SpecIP).                *)
(***************************************************************************)
ArmyMax == {"army3", "army10"}
ArmyMin == {"armyMin", "armyCombined"}
Army == ArmyMax \cup ArmyMin

\* Solve has returned in the current section.
Solved == pc \in {"report", "next"}
\* The constraints, the objective of the current section are complete.
Constrained == pc \in {"objective", "solve", "search", "report", "next"}
Built == pc \in {"solve", "search", "report", "next"}

\* sum over the units of DATA[u][r] * count[u], r counted from 0
Consumption(r, count) ==
    Eval([u \in 1..Len(count) |-> DATA[u][r + 1]], count)

\* C5: whenever a maximizing solve_army reports a solution, the
\* consumption of every resource r of RESOURCES is at most RESOURCES[r]
\* and no unit count is negative.
C5_WithinResources ==
    (cell \in ArmyMax /\ Solved /\ status = OPTIMAL) =>
        /\ Len(values) = Len(UNITS)
        /\ \A u \in 1..Len(values) : values[u] >= 0
        /\ \A r \in 0..(Len(RESOURCES) - 1) :
              Consumption(r, values) <= RESOURCES[r + 1]

C5_Witness ==
    /\ cell = "army3"
    /\ pc = "next"
    /\ RESOURCES = Resources3
    /\ values = << 6, 0, 6 >>
    /\ Consumption(0, values) = 1200
    /\ Len(out) = 5

\* C6 as stated: every model solve_army builds has as many constraints as
\* RESOURCES has entries.
C6_OnePerResource ==
    (cell \in Army /\ Constrained) => Len(constraints) = Len(RESOURCES)

\* C6 amended: the maximizing solve_army adds one constraint per entry of
\* RESOURCES; the minimizing one with the power constraint alone adds 1;
\* the combined one adds the power constraint once per entry of RESOURCES
\* and then one limit per entry, 2 * len(RESOURCES) in all.
C6_ConstraintCounts ==
    Constrained =>
        /\ cell \in ArmyMax =>
              /\ Len(constraints) = Len(RESOURCES)
              /\ \A i \in DOMAIN constraints : constraints[i].kind = "le"
        /\ cell = "armyMin" =>
              /\ Len(constraints) = 1
              /\ constraints[1].kind = "ge"
        /\ cell = "armyCombined" =>
              /\ Len(constraints) = 2 * Len(RESOURCES)
              /\ \A i \in 1..Len(RESOURCES) :
                    /\ constraints[i] = constraints[1]
                    /\ constraints[i].kind = "ge"
                    /\ constraints[Len(RESOURCES) + i].kind = "le"

C6_Witness ==
    /\ cell = "armyCombined"
    /\ pc = "objective"
    /\ Len(RESOURCES) = 3
    /\ Len(constraints) = 6

\* C7 as stated: in every model solve_army builds every variable has an
\* objective coefficient, the last column of its row, DATA[u][-1].
C7_ValueColumn ==
    (cell \in Army /\ Built) =>
        /\ Len(objective.coef) = Len(domains)
        /\ \A u \in DOMAIN domains :
              objective.coef[u] = DATA[u][Len(DATA[u])]

\* C7 amended: every variable has an objective coefficient; it is
\* DATA[u][-1] in the first solve_army, 10 * DATA[u][-2] + DATA[u][-1] in
\* the 10-unit maximization, and DATA[u][0] + DATA[u][1] + DATA[u][2] in
\* the two minimizations.
C7_ObjectiveCoefficients ==
    (cell \in Army /\ Built) =>
        /\ Len(objective.coef) = Len(domains)
        /\ Len(domains) = Len(UNITS)
        /\ cell = "army3" =>
              /\ objective.dir = "max"
              /\ \A u \in DOMAIN domains :
                    objective.coef[u] = DATA[u][Len(DATA[u])]
        /\ cell = "army10" =>
              /\ objective.dir = "max"
              /\ \A u \in DOMAIN domains :
                    objective.coef[u] =
                        10 * DATA[u][Len(DATA[u]) - 1] + DATA[u][Len(DATA[u])]
              /\ objective.coef =
                    << 130, 275, 120, 200, 500, 215, 470, 2700, 500, 600 >>
        /\ cell \in ArmyMin =>
              /\ objective.dir = "min"
              /\ \A u \in DOMAIN domains :
                    objective.coef[u] = DATA[u][1] + DATA[u][2] + DATA[u][3]

C7_Witness ==
    /\ cell = "army10"
    /\ pc = "solve"
    /\ objective.dir = "max"
    /\ objective.coef[8] = 2700
    /\ DATA[8][Len(DATA[8])] = 700

\* C8: called with the 3-unit data, solve_army builds the constraints and
\* the objective of the hand-written CBC model (60s + 80b + 140h <= 1200,
\* 20s + 10b <= 800, 40b + 100h <= 600, maximize 70s + 95b + 230h) and
\* obtains its result: optimal value 1800 with 6 swordsmen, 0 bowmen and
\* 6 horsemen.
C8_GenericMatchesHandWritten ==
    ( /\ Len(log) >= 2
      /\ log[2].UNITS = Units3
      /\ log[2].DATA = Data3
      /\ log[2].RESOURCES = Resources3 ) =>
        /\ log[1].cell = "cbc"
        /\ log[2].cell = "army3"
        /\ log[1].constraints = << LinearLe(<< 60, 80, 140 >>, 1200),
                                   LinearLe(<< 20, 10, 0 >>, 800),
                                   LinearLe(<< 0, 40, 100 >>, 600) >>
        /\ log[1].objective = [dir |-> "max", coef |-> << 70, 95, 230 >>]
        /\ log[2].domains = log[1].domains
        /\ log[2].constraints = log[1].constraints
        /\ log[2].objective = log[1].objective
        /\ log[1].status = OPTIMAL
        /\ log[2].status = OPTIMAL
        /\ log[1].values = << 6, 0, 6 >>
        /\ log[2].values = << 6, 0, 6 >>
        /\ ObjectiveValue(log[2].objective, log[2].values) = 1800
        /\ log[2].out = log[1].out

C8_Witness ==
    /\ Len(log) >= 2
    /\ log[2].cell = "army3"
    /\ log[2].DATA = Data3
    /\ log[2].RESOURCES = Resources3
    /\ log[2].values = << 6, 0, 6 >>
    /\ log[2].out[2] = Line("Optimal value", << 1800 >>)

\* C9 as stated: when Solve returns a status other than optimal,
\* solve_army does not raise, signals an Infeasible or an Unbounded outcome
\* to its caller and reports no assignment and no objective value.
C9_SignalsOutcome ==
    (cell \in Army /\ pc = "next" /\ status # OPTIMAL) =>
        \E outcome \in {"Infeasible", "Unbounded"} :
            out = << Line(outcome, << >>) >>

\* C9 amended: when Solve returns a status other than optimal, solve_army
\* does not raise; whatever the status, it prints the one line "The solver
\* could not find an optimal solution." and nothing else: no assignment,
\* no objective value, and nothing that tells Infeasible from Unbounded.
C9_NoOptimalMessage ==
    /\ (cell \in Army /\ pc = "next" /\ status # OPTIMAL) =>
          /\ status \in {INFEASIBLE, UNBOUNDED}
          /\ out = << Line(NoOptimal, << >>) >>
    /\ status \in {INFEASIBLE, UNBOUNDED} => pc # "raised"

C9_Witness ==
    /\ cell = "army3"
    /\ pc = "next"
    /\ status = INFEASIBLE
    /\ out = << Line(NoOptimal, << >>) >>

\* The rows of DATA do not match UNITS, or its columns do not match
\* RESOURCES plus the value column.
Malformed ==
    \/ Len(DATA) # Len(UNITS)
    \/ \E u \in DOMAIN DATA : Len(DATA[u]) # Len(RESOURCES) + 1

\* C10: called with malformed input dimensions, solve_army fails before
\* solving; it never solves a model in which rows or columns of DATA were
\* ignored.
C10_MalformedFailsFast ==
    (cell = "army3" /\ Malformed) =>
        pc \notin {"solve", "search", "report", "next"}

(***************************************************************************)
(* The shape of the inputs of solve_army (SpecIP).                         *)
(***************************************************************************)
\* solve_army has been called with the inputs the notebook itself assigns:
\* the 3-unit inputs in the first generic section, the 10-unit inputs in
\* the second.
NotebookCall ==
    /\ cell \in ArmyMax
    /\ pc # "globals"
    /\ cell = "army3" =>
          Input(UNITS, DATA, RESOURCES) = Input(Units3, Data3, Resources3)

Columns(n) == \A u \in DOMAIN DATA : Len(DATA[u]) = n

\* C11 as stated: at every call of solve_army in the notebook, DATA has one
\* row per entry of UNITS and len(RESOURCES) + 1 columns in every row.
C11_RowsAndOneValueColumn ==
    NotebookCall => Len(DATA) = Len(UNITS) /\ Columns(Len(RESOURCES) + 1)

\* C11, amended: at every call of solve_army in the notebook, DATA has one
\* row per entry of UNITS; every row has len(RESOURCES) + 1 columns at the
\* 3-unit call (one value column) and len(RESOURCES) + 2 columns at the
\* 10-unit call (attack and health).
C11_RowsAndValueColumns ==
    NotebookCall =>
        /\ Len(DATA) = Len(UNITS)
        /\ cell = "army3" => Len(UNITS) = 3 /\ Columns(Len(RESOURCES) + 1)
        /\ cell = "army10" => Len(UNITS) = 10 /\ Columns(Len(RESOURCES) + 2)

C11_Witness ==
    /\ NotebookCall
    /\ cell = "army10"
    /\ pc = "report"
    /\ Len(DATA) = 10
    /\ Len(RESOURCES) = 3
    /\ Len(DATA[10]) = 5

(***************************************************************************)
(* Properties of the re-runs (SpecRerun).                                  *)
(***************************************************************************)
SameModel(a, b) ==
    /\ a.domains = b.domains
    /\ a.constraints = b.constraints
    /\ a.objective = b.objective

C13_CapacityZero ==
    /\ (cell = "rations" /\ capacity = 0 /\ pc \in {"search", "report", "next"}) =>
          /\ domains = [i \in 1..3 |-> [lo |-> 0, hi |-> 0]]
          /\ constraints = << LinearLe(<< 1, 3, 7 >>, 0) >>
          /\ FeasibleIn(Box3) = { << 0, 0, 0 >> }
    /\ (cell = "rations" /\ capacity = 0 /\ pc \in {"report", "next"}) =>
          /\ status = OPTIMAL
          /\ values = << 0, 0, 0 >>
          /\ ObjectiveValue(objective, values) = 0
    /\ (cell = "rations" /\ capacity = 0 /\ pc = "next") =>
          out = << Line("Solution", << >>), Line("Optimal value", << 0 >>),
                   Line("Bread", << 0 >>), Line("Meat", << 0 >>),
                   Line("Beer", << 0 >>) >>

C13_Witness ==
    /\ cell = "rations"
    /\ capacity = 0
    /\ pc = "next"
    /\ status = OPTIMAL
    /\ values = << 0, 0, 0 >>
    /\ out[2] = Line("Optimal value", << 0 >>)

\* Finished solve a had no more capacity (ration model), or no more of any
\* resource with the same units and rows (army model), than finished solve b.
NoMoreThan(a, b) ==
    /\ a.cell = b.cell
    /\ a.cell = "rations" => a.capacity <= b.capacity
    /\ a.cell = "army3" =>
          /\ a.UNITS = b.UNITS
          /\ a.DATA = b.DATA
          /\ Len(a.RESOURCES) = Len(b.RESOURCES)
          /\ \A r \in DOMAIN a.RESOURCES : a.RESOURCES[r] <= b.RESOURCES[r]

Optimum(a) == ObjectiveValue(a.objective, a.values)

\* C14: of any two finished solves of the ration model, or of the 3-unit
\* army model, the one with no more capacity (no more of any resource)
\* found an optimum, and its optimum is no greater than the other's.
C14_Monotone ==
    \A i, j \in DOMAIN log :
        NoMoreThan(log[i], log[j]) =>
            /\ log[i].status = OPTIMAL
            /\ log[j].status = OPTIMAL
            /\ Optimum(log[i]) <= Optimum(log[j])

C14_Witness ==
    /\ pc = "end"
    /\ \E i, j \in DOMAIN log :
          /\ log[i].cell = "rations"
          /\ NoMoreThan(log[i], log[j])
          /\ log[i].capacity = 6 /\ log[j].capacity = 7
          /\ Optimum(log[i]) = 20 /\ Optimum(log[j]) = 26
    /\ \E i, j \in DOMAIN log :
          /\ log[i].cell = "army3"
          /\ NoMoreThan(log[i], log[j])
          /\ log[i].RESOURCES = << 600, 200, 150 >>
          /\ log[j].RESOURCES = << 600, 400, 300 >>
          /\ Optimum(log[i]) = 745 /\ Optimum(log[j]) = 900
    /\ \E i, j \in DOMAIN log :
          /\ log[i].RESOURCES = << 1200, 400, 600 >>
          /\ log[j].RESOURCES = << 1200, 800, 600 >>
          /\ NoMoreThan(log[i], log[j])
          /\ Optimum(log[i]) = Optimum(log[j])

(***************************************************************************)
(* Properties of both notebooks (Spec).                                    *)
(***************************************************************************)
Count(seq, x) == Cardinality({ i \in DOMAIN seq : seq[i] = x })

\* C15: every section solves a model and a solver of its own.  Right after
\* their creation they hold no variable, constraint, objective, parameter
\* or result; at Solve the model holds the variables and constraints the
\* section itself declared and no others.  In particular
\* enumerate_all_solutions, set for the enumeration of the scouts, is not
\* set when the ration model is optimized, and no callback runs there; and
\* the 10-unit call of solve_army solves 10 variables under 3 constraints,
\* none left from the 3-unit call before it.
C15_Independent ==
    /\ pc = After(cell, "new") =>
          /\ domains = << >>
          /\ constraints = << >>
          /\ objective = NoObjective
          /\ ~enumerate_all_solutions
          /\ status = NotSolved
          /\ values = << >>
          /\ calls = << >>
    /\ pc = "solve" =>
          /\ Len(domains) = Len(SectionDomains(cell))
          /\ Count(calls, "var") = Len(domains)
          /\ Len(constraints) = SectionConstraintCount(cell)
          /\ Count(calls, "constraint") = Len(constraints)
          /\ \A k \in DOMAIN constraints :
                Len(constraints[k].coef) = Len(domains)
          /\ Count(calls, "solve") = 0
    /\ (cell = "rations" /\ Built) =>
          /\ log[2].cell = "scoutsAll"
          /\ log[2].enumerate_all_solutions
          /\ ~enumerate_all_solutions
          /\ Count(calls, "params") = 0
          /\ callbacks = << >>
    /\ (cell = "army10" /\ Built) =>
          /\ log[2].cell = "army3"
          /\ Len(log[2].UNITS) = 3
          /\ Len(domains) = 10
          /\ Len(constraints) = 3
          /\ \A k \in DOMAIN constraints : Len(constraints[k].coef) = 10

C15_Witness ==
    /\ cell = "rations"
    /\ pc = "report"
    /\ log[2].cell = "scoutsAll"
    /\ log[2].enumerate_all_solutions
    /\ ~enumerate_all_solutions
    /\ status = OPTIMAL
    /\ values = << 2, 1, 2 >>

\* The sections that ask for any solution or for all of them.
Satisfaction == {"scouts", "scoutsAll", "rationsCount"}

Position(seq, x) == CHOOSE i \in DOMAIN seq : seq[i] = x

\* C16 as stated: every model has had exactly one objective declared when
\* it is solved.
C16_OneObjective ==
    pc = "solve" => Count(calls, "objective") = 1 /\ objective # NoObjective

\* C16, amended: the optimization models (the ration model, the
\* hand-written army model and the four solve_army models) have had exactly
\* one objective declared when they are solved, and the declaration
\* precedes the solve; the scouts model, its enumeration and the ration
\* enumeration are solved with no objective declared.
C16_ObjectiveOrNone ==
    /\ (pc = "solve" /\ cell \in Satisfaction) =>
          Count(calls, "objective") = 0 /\ objective = NoObjective
    /\ (pc = "solve" /\ cell \notin Satisfaction) =>
          /\ Count(calls, "objective") = 1
          /\ objective.dir \in {"max", "min"}
          /\ Len(objective.coef) = Len(domains)
    /\ (pc \in {"search", "report"} /\ cell \notin Satisfaction) =>
          /\ Count(calls, "objective") = 1
          /\ Count(calls, "solve") = 1
          /\ Position(calls, "objective") < Position(calls, "solve")

C16_Witness ==
    /\ cell = "rationsCount"
    /\ pc = "report"
    /\ Count(calls, "solve") = 1
    /\ Count(calls, "objective") = 0
    /\ objective = NoObjective
    /\ log[3].cell = "rations"
    /\ Count(log[3].calls, "objective") = 1
    /\ log[3].objective = [dir |-> "max", coef |-> << 3, 10, 26 >>]

(***************************************************************************)
(* Properties of the 10-unit models under search (SpecSearch).             *)
(***************************************************************************)
\* The premises of the bound the search rests on.
DualFeasible ==
    /\ Scale(cell) > 0
    /\ Len(Dual(cell)) = Len(constraints)
    /\ \A i \in DOMAIN constraints :
          /\ Dual(cell)[i] >= 0
          /\ \A u \in DOMAIN domains : constraints[i].coef[u] >= 0
    /\ \A u \in DOMAIN domains : ReducedCost[u] >= 0 /\ domains[u].lo = 0
    /\ Gap >= 0

\* S * objective(x) = bound -/+ (red . x + Y . slack(x))
LagrangeIdentity(x) ==
    LET rest == Eval(ReducedCost, x)
                  + Eval([i \in DOMAIN constraints |->
                            Slack(constraints[i], x)], Dual(cell))
    IN  Scale(cell) * ObjectiveValue(objective, x)
          = IF objective.dir = "max" THEN DualBound - rest
            ELSE DualBound + rest

BoundSound == DualFeasible /\ LagrangeIdentity(Assignment(point))

Costs10 == << 80, 120, 80, 120, 240, 120, 240, 300, 500, 600 >>
Powers10 == << 130, 275, 120, 200, 500, 215, 470, 2700, 500, 600 >>
Rams371 == << 0, 0, 0, 0, 0, 0, 0, 371, 0, 0 >>

\* C17: the model that minimizes the summed food, wood and gold of the
\* army under total power >= 1000001 has the optimal value 111300; 371
\* battering rams attain it with power 1001700, and the search, which
\* looks at every assignment that could cost no more, finds no other
\* assignment as cheap and none cheaper.  The section prints both values.
C17_MinimumResources ==
    /\ (cell = "armyMin" /\ pc = "solve") =>
          /\ constraints = << LinearGe(Powers10, 1000001) >>
          /\ objective = [dir |-> "min", coef |-> Costs10]
          /\ Feasible(constraints, Rams371)
          /\ ObjectiveValue(objective, Rams371) = 111300
          /\ Eval(Power, Rams371) = 1001700
    /\ (cell = "armyMin" /\ pc = "branch") => BoundSound
    /\ Searched("armyMin") => best = [val |-> 111300, pts |-> {Rams371}]
    /\ (cell = "armyMin" /\ Solved) =>
          /\ status = OPTIMAL
          /\ values = Rams371
    /\ (cell = "armyMin" /\ pc = "next") =>
          /\ out[2] = Line("Optimal value", << 111300 >>)
          /\ out[3] = Line("Power", << 1001700 >>)

C17_Witness ==
    /\ nb = "SEARCH"
    /\ cell = "armyMin"
    /\ pc = "next"
    /\ status = OPTIMAL
    /\ values[8] = 371
    /\ out[2] = Line("Optimal value", << 111300 >>)

\* Armies of 365 to 371 battering rams and up to 30 units of one other
\* kind: their powers lie on both sides of the threshold.
PowerTests ==
    { [i \in 1..10 |-> IF i = 8 THEN r ELSE IF i = u THEN k ELSE 0] :
        r \in 365..371, u \in (1..10) \ {8}, k \in 0..30 }

ExceedsMillion(x) == Eval(Power, x) > 1000000

\* C18: in both minimizing models the power constraint is total power >=
\* 1000001, and an army of whole units satisfies it if and only if its
\* power is strictly greater than 1000000: on every test army, on every
\* assignment the search looks cursor.  Every optimal assignment the search
\* keeps, the one Solve returns and the power the section prints exceed
\* 1000000.
C18_StrictlyGreater ==
    /\ (cell \in ArmyMin /\ pc = "objective") =>
          /\ constraints[1] = LinearGe(Power, 1000001)
          /\ \A x \in PowerTests :
                Holds(constraints[1], x) <=> ExceedsMillion(x)
    /\ (cell \in ArmyMin /\ pc = "branch") =>
          (Holds(constraints[1], Assignment(point))
             <=> ExceedsMillion(Assignment(point)))
    /\ (cell \in ArmyMin /\ Searched(cell)) =>
          /\ best.pts # {}
          /\ \A x \in best.pts : ExceedsMillion(x)
    /\ (cell \in ArmyMin /\ Solved) =>
          status = OPTIMAL /\ ExceedsMillion(values)
    /\ (cell \in ArmyMin /\ pc = "next") =>
          out[3].text = "Power" /\ out[3].nums[1] > 1000000

C18_Witness ==
    /\ cell = "armyCombined"
    /\ pc = "next"
    /\ status = OPTIMAL
    /\ out[3] = Line("Power", << 1000105 >>)
    /\ \E x \in PowerTests :
          Eval(Power, x) = 1000000 /\ ~Holds(constraints[1], x)
    /\ \E x \in PowerTests :
          Eval(Power, x) = 1000040 /\ Holds(constraints[1], x)

Combined == << 1, 681, 0, 0, 0, 0, 0, 301, 0, 0 >>

\* C19: the assignment stored for the combined model (1 swordsman, 681
\* men-at-arms, 301 battering rams) satisfies the power constraint with
\* power 1000105 and the three limits with food 68160, wood 90320 and gold
\* 13620, which sum to its objective value 172100; the search, which looks
\* at every assignment that could cost no more, finds none cheaper, so
\* 172100 is optimal.  Solve returns an assignment of that value, and for
\* the stored one the section prints these totals.
C19_CombinedOptimum ==
    /\ (cell = "armyCombined" /\ pc = "solve") =>
          /\ Feasible(constraints, Combined)
          /\ Eval(Power, Combined) = 1000105
          /\ Eval(Power, Combined) >= 1000001
          /\ Eval(Column(0), Combined) = 68160 /\ 68160 <= RESOURCES[1]
          /\ Eval(Column(1), Combined) = 90320 /\ 90320 <= RESOURCES[2]
          /\ Eval(Column(2), Combined) = 13620 /\ 13620 <= RESOURCES[3]
          /\ 68160 + 90320 + 13620 = 172100
          /\ objective = [dir |-> "min", coef |-> Costs10]
          /\ ObjectiveValue(objective, Combined) = 172100
    /\ (cell = "armyCombined" /\ pc = "branch") => BoundSound
    /\ Searched("armyCombined") =>
          /\ best.val = 172100
          /\ Combined \in best.pts
          /\ \A x \in best.pts : Feasible(constraints, x)
    /\ (cell = "armyCombined" /\ Solved) =>
          /\ status = OPTIMAL
          /\ ObjectiveValue(objective, values) = 172100
    /\ (cell = "armyCombined" /\ pc = "next" /\ values = Combined) =>
          /\ out[2] = Line("Optimal value", << 172100 >>)
          /\ out[3] = Line("Power", << 1000105 >>)
          /\ SubSeq(out, 14, 16) = << Line("Food", << 68160 >>),
                                      Line("Wood", << 90320 >>),
                                      Line("Gold", << 13620 >>) >>

C19_Witness ==
    /\ nb = "SEARCH"
    /\ cell = "armyCombined"
    /\ pc = "next"
    /\ status = OPTIMAL
    /\ values = Combined
    /\ out[2] = Line("Optimal value", << 172100 >>)
    /\ out[14] = Line("Food", << 68160 >>)

Maximal10 == << 2, 1283, 3, 0, 454, 0, 0, 301, 0, 0 >>

\* C20: the assignment stored for the 10-unit maximization (2, 1283, 3, 0,
\* 454, 0, 0, 301, 0, 0) stays within the limits 183000, 90512 and 80150,
\* its objective value is 1393145, and the search, which looks at every
\* assignment that could be as powerful, finds no other as powerful and
\* none more powerful.  Solve returns it and the section prints its value.
C20_MaximumPower ==
    /\ (cell = "army10" /\ pc = "solve") =>
          /\ RESOURCES = << 183000, 90512, 80150 >>
          /\ Len(constraints) = 3
          /\ \A r \in 1..3 :
                /\ constraints[r] = LinearLe(Column(r - 1), RESOURCES[r])
                /\ Eval(Column(r - 1), Maximal10) <= RESOURCES[r]
          /\ Feasible(constraints, Maximal10)
          /\ objective = [dir |-> "max", coef |-> Powers10]
          /\ ObjectiveValue(objective, Maximal10) = 1393145
    /\ (cell = "army10" /\ pc = "branch") => BoundSound
    /\ Searched("army10") => best = [val |-> 1393145, pts |-> {Maximal10}]
    /\ (cell = "army10" /\ Solved) =>
          /\ status = OPTIMAL
          /\ values = Maximal10
    /\ (cell = "army10" /\ pc = "next") =>
          out[2] = Line("Optimal value", << 1393145 >>)

C20_Witness ==
    /\ nb = "SEARCH"
    /\ cell = "army10"
    /\ pc = "next"
    /\ status = OPTIMAL
    /\ values = Maximal10
    /\ out[2] = Line("Optimal value", << 1393145 >>)

(***************************************************************************)
(* Properties of the enumeration under propagation (SpecCount).            *)
(***************************************************************************)
\* C21: the ration enumeration model built with capacity 1000 has the
\* domains [0, 1000] and the constraint bread + 3 meat + 7 beer <= 1000;
\* the enumeration hands exactly 8,080,104 feasible assignments to the
\* callback, and the section prints that count.  (The same search counts
\* the 121 assignments of capacity 19.)
C21_LargeCount ==
    /\ (cell = "rationsCount" /\ pc = "propagate") =>
          /\ point # << >> => Feasible(constraints, point)
          /\ capacity = 19 => solution_count <= 121
          /\ capacity = 1000 => solution_count <= 8080104
    /\ (cell = "rationsCount" /\ capacity = 1000 /\ Built) =>
          /\ domains = [i \in 1..3 |-> [lo |-> 0, hi |-> 1000]]
          /\ constraints = << LinearLe(<< 1, 3, 7 >>, 1000) >>
          /\ objective = NoObjective
          /\ enumerate_all_solutions
    /\ (cell = "rationsCount" /\ capacity = 19 /\ Solved) =>
          solution_count = 121
    /\ (cell = "rationsCount" /\ capacity = 1000 /\ Solved) =>
          /\ status = OPTIMAL
          /\ solution_count = 8080104
    /\ (cell = "rationsCount" /\ capacity = 1000 /\ pc = "next") =>
          out = << Line("", << 8080104 >>) >>

C21_Witness ==
    /\ nb = "COUNT"
    /\ cell = "rationsCount"
    /\ capacity = 1000
    /\ pc = "next"
    /\ solution_count = 8080104
    /\ out = << Line("", << 8080104 >>) >>

(***************************************************************************)
(* The order of the calls on one model (Spec).                             *)
(***************************************************************************)
Rank(x) ==
    CASE x = "var" -> 1
      [] x = "constraint" -> 2
      [] x = "objective" -> 3
      [] x = "params" -> 4
      [] x = "solve" -> 5
      [] x = "value" -> 6

InOrder(seq) ==
    \A i, j \in DOMAIN seq : i < j => Rank(seq[i]) <= Rank(seq[j])

\* Solve has been invoked and has not returned yet.
Solving == pc \in {"search", "branch", "propagate"}

\* The model in hand is the one of the current section: the section has
\* passed the creation of its model.
Own ==
    \/ \A i \in DOMAIN Flow(cell) : Flow(cell)[i] # pc
    \/ IndexOf(Flow(cell), pc) > IndexOf(Flow(cell), "new")

\* The model is the one the section declared, whole.
AsDeclared ==
    /\ domains = SectionDomains(cell)
    /\ Len(constraints) = SectionConstraintCount(cell)
    /\ \A i \in DOMAIN constraints : constraints[i] = SectionConstraint(cell, i)
    /\ Count(calls, "var") = Len(domains)
    /\ Count(calls, "constraint") = Len(constraints)

\* C22 as stated: on every model the calls come in the order variables,
\* constraints, objective, solve; the objective has been set when solve is
\* invoked; solve is invoked once; after solve the model is the one built
\* before it; values are read only once solve has returned, and only on an
\* accepted status.
C22_FixedOrder ==
    /\ InOrder(calls)
    /\ Count(calls, "solve") <= 1
    /\ (Own /\ Count(calls, "solve") = 1) =>
          /\ Count(calls, "objective") = 1
          /\ AsDeclared
    /\ (Own /\ Count(calls, "value") > 0) =>
          /\ Count(calls, "solve") = 1
          /\ ~Solving
          /\ status \in Accepted(cell)

\* C22, amended: on every model the calls come in the order variables,
\* constraints, objective (the optimization models: exactly one; the
\* satisfiability models: none), solver parameter, solve; solve is invoked
\* at most once and only on the complete model, and a model that has been
\* solved is the one built before the solve.  The cell reads the values
\* only after solve has returned and only on an accepted status, once.
\* The exception is the enumeration of the scouts: its PrintSolutions
\* callback reads the value of the variable for each solution while solve
\* is still running.
C22_OrderWithCallback ==
    /\ InOrder(calls)
    /\ Count(calls, "solve") <= 1
    /\ Count(calls, "objective") <= 1
    /\ (Own /\ Count(calls, "solve") = 1) =>
          /\ Count(calls, "objective") = IF cell \in Satisfaction THEN 0 ELSE 1
          /\ AsDeclared
    /\ (Own /\ Count(calls, "solve") = 0) =>
          pc \notin {"report", "next", "end"} /\ ~Solving
    /\ (Own /\ Count(calls, "value") > 0 /\ cell # "scoutsAll") =>
          /\ Count(calls, "solve") = 1
          /\ pc \in {"next", "end"}
          /\ status \in Accepted(cell)
          /\ Count(calls, "value") = 1
    /\ (pc \in {"next", "end"} /\ ReadsValues(cell)) =>
          (Count(calls, "value") = 1 <=> status \in Accepted(cell))
    /\ (Own /\ cell = "scoutsAll") =>
          /\ Count(calls, "value") = Len(callbacks)
          /\ Count(calls, "value") > 0 => Count(calls, "solve") = 1

C22_Witness ==
    /\ cell = "rations"
    /\ pc = "next"
    /\ status = OPTIMAL
    /\ calls = << "var", "var", "var", "constraint", "objective", "solve",
                  "value" >>

(***************************************************************************)
(* Properties of the namespace (SpecNames).                                *)
(***************************************************************************)
\* C23: when the code cells of a notebook are executed once each in
\* document order from an empty namespace, no cell looks up a name that is
\* not bound: no NameError is raised, in particular none in the first code
\* cell of the Integer Programming notebook.
C23_NamesDefined == errors = << >>

(***************************************************************************)
(* Properties of the status handling (SpecStatus).                         *)
(***************************************************************************)
\* The lines of a printed report that show values of variables.
ValueLines(o) == { i \in DOMAIN o : o[i].nums # << >> }

\* C24: once solve_army or the ration optimization has reported, it has
\* printed an assignment exactly when the status is OPTIMAL; on FEASIBLE,
\* INFEASIBLE and UNBOUNDED it has printed the one line "The solver could
\* not find an optimal solution." and has read no value.  The scouts
\* section has printed its assignment when the status is OPTIMAL or
\* FEASIBLE.  No section reads a value on any other status.
C24_AcceptedStatuses ==
    /\ status \in {NotSolved, OPTIMAL, FEASIBLE, INFEASIBLE, UNBOUNDED}
    /\ (pc = "next" /\ cell \in {"rations", "army3"}) =>
          /\ status = OPTIMAL =>
                /\ Count(calls, "value") = 1
                /\ ValueLines(out) # {}
                /\ \A i \in DOMAIN out : out[i].text # NoOptimal
                /\ Feasible(constraints, values)
          /\ status \in {FEASIBLE, INFEASIBLE, UNBOUNDED} =>
                /\ out = << Line(NoOptimal, << >>) >>
                /\ Count(calls, "value") = 0
    /\ (pc = "next" /\ cell = "scouts") =>
          /\ status \in {OPTIMAL, FEASIBLE} =>
                /\ Count(calls, "value") = 1
                /\ \E i \in DOMAIN out : out[i] = Line("Army", << values[1] >>)
          /\ status \notin {OPTIMAL, FEASIBLE} =>
                /\ ValueLines(out) = {}
                /\ Count(calls, "value") = 0
    /\ Count(calls, "value") > 0 =>
          status \in (IF cell = "scouts" THEN {OPTIMAL, FEASIBLE}
                      ELSE {OPTIMAL})

C24_Witness ==
    /\ nb = "STATUS"
    /\ cell = "rations"
    /\ pc = "next"
    /\ status = FEASIBLE
    /\ values # << >>
    /\ out = << Line(NoOptimal, << >>) >>
    /\ Count(calls, "value") = 0

(***************************************************************************)
(* Properties of the minimizing solve_army under several RESOURCES         *)
(* (SpecArguments).                                                        *)
(***************************************************************************)
\* What the minimizing section prints for 371 battering rams.
Report371 ==
    << Line("Solution", << >>),
       Line("Optimal value", << 111300 >>),
       Line("Power", << 1001700 >>) >>
    \o [u \in 1..10 |-> Line(Units10[u], << Rams371[u] >>)]
    \o << Line("Food", << 0 >>),
          Line("Wood", << 111300 >>),
          Line("Gold", << 0 >>) >>

\* C25: whatever RESOURCES the minimizing solve_army (power constraint
\* only) is called with, for the same UNITS and DATA it builds one and the
\* same model - ten variables, the power constraint, the summed cost to
\* minimize - and reports one and the same result, 371 battering rams; the
\* 111300 wood they need exceed the 90512 of the notebook's RESOURCES.
C25_IgnoresResources ==
    /\ RESOURCES \in ResourceVectors
    /\ (cell = "armyMin" /\ pc \in {"solve", "branch", "search", "report",
                                     "next", "end"}) =>
          /\ domains = [u \in 1..10 |-> [lo |-> 0, hi |-> Infinity]]
          /\ constraints = << LinearGe(Powers10, 1000001) >>
          /\ objective = [dir |-> "min", coef |-> Costs10]
    /\ (cell = "armyMin" /\ pc \in {"report", "next", "end"}) =>
          /\ status = OPTIMAL
          /\ values = Rams371
    /\ (cell = "armyMin" /\ pc = "next") => out = Report371
    /\ pc # "raised"
    /\ (cell = "armyMin" /\ pc = "next" /\ RESOURCES = Resources10) =>
          /\ Consumption(1, values) = 111300
          /\ RESOURCES[2] = 90512
          /\ Consumption(1, values) > RESOURCES[2]

C25_Witness ==
    /\ nb = "ARGUMENTS"
    /\ cell = "armyMin"
    /\ pc = "next"
    /\ RESOURCES = << 183000, 90512, 80150 >>
    /\ values = Rams371
    /\ out = Report371
    /\ Consumption(1, values) > RESOURCES[2]

====
